---- MODULE Spec2Model ----
(***************************************************************************)
(* Memory-and-consistency subsystem of Morpheus (backend/).                *)
(*                                                                         *)
(* A Python str is a sequence of characters.  A character is an atom       *)
(* (a one-element TLA+ string); a CJK ideograph is written as its pinyin   *)
(* in capitals ("SI" is the single character U+6B7B), a Latin letter as    *)
(* itself.  All string functions below work on such sequences the way the  *)
(* Python built-ins and the regular expressions of the source do.          *)
(***************************************************************************)
EXTENDS Integers, Sequences, FiniteSets, TLC

VARIABLES
    chapters,          \* api/main.py `chapters`: chapter id -> Chapter (as saved)
    store,             \* what the project's MemoryStore and Project hand to check
    response,          \* the last HTTP response of the review/draft API
    held,              \* a Conflict object handed to the engine's resolve/exempt
    check_in,          \* (draft, context) given to ConsistencyEngine.check
    check_out,         \* result of the latest ConsistencyEngine.check
    check_prev,        \* result of the previous check on the same input
    budget_in,         \* input_budget_tokens given to _compute_field_budgets
    budgets,           \* the dict returned by _compute_field_budgets
    service,           \* MemoryContextService configuration and L1/L2/L3 documents
    project_chapters,  \* the chapter list handed to MemoryContextService
    threads,           \* the list returned by the latest recompute_open_threads
    threads_file,      \* OPEN_THREADS.md as written by _write_open_threads_file
    recomputes,        \* number of recomputes run over project_chapters
    pack,              \* the latest ContextPack
    pack_in,           \* (chapter_number, top_k) of the latest pack build
    chapter_ops,       \* chapter operations since the latest recompute
    merge_in,          \* (existing, incoming) given to ProfileMergeEngine.merge
    merge_out,         \* the profile returned by ProfileMergeEngine.merge
    search_in,         \* the lexical and vector results HybridSearchEngine.search gets
    search_out,        \* the list returned by HybridSearchEngine.search
    documents,         \* the memory documents on disk: path -> text
    memory_items,      \* the rows of table memory_items
    graph_entities,    \* the rows of table entities
    graph_events,      \* the rows of table events
    graph_in,          \* the chapter given to the latest upsert_graph_from_chapter
    memory_md,         \* the rolling-memory document MEMORY.md
    memory_legacy,     \* its backup MEMORY.legacy.md
    roll_in,           \* the arguments of the latest refresh_memory_after_chapter
    ops,               \* number of operations run on the memory store
    llm_in,            \* the latest call of LLMClient and the provider's behaviour
    llm_out,           \* what that call returned
    plan_in,           \* the director's first and retry answers to generate_plan
    plan_out,          \* the plan generate_plan selected, with its quality
    stream_gen,        \* what the generator chat_stream_text yields, and how it ends
    stream_worker,     \* the worker thread: position, next delta, worker_errors
    loop_ready,        \* the callbacks call_soon_threadsafe handed to the event loop
    stream_queue,      \* the asyncio.Queue between worker and consumer
    stream_consumer,   \* the consuming coroutine: position and deltas received
    fz_chapter,        \* the Chapter object a handler works on
    fz_file,           \* the chapter file as save_chapter last wrote it
    fz_derived,        \* the texts the chapter's derived artifacts were made from
    fz_pending,        \* the statements the running handler has still to run
    vq_items,          \* the rows of memory_items: id and updated_at
    vq_clock,          \* datetime.now()
    vq_key,            \* whether the settings hold an embedding provider key
    vector_index_signatures, \* api/main.py `vector_index_signatures` of the project
    vector_index,      \* the records of the index directory index/lancedb
    vq_out,            \* what the latest query_memory worked with
    one_shot,          \* the chapter a one-shot run has finalized and not yet approved
    book_chapters,     \* chapter numbers of the project's chapters, as created
    book_runs,         \* run -> where a one-shot run stands and what it remembers
    book_out           \* status code of the latest create_chapter

vars == <<chapters, store, response, held, check_in, check_out, check_prev,
          budget_in, budgets, service, project_chapters, threads,
          threads_file, recomputes, pack, pack_in, chapter_ops,
          merge_in, merge_out, search_in, search_out, documents, memory_items,
          graph_entities, graph_events, graph_in, memory_md, memory_legacy, roll_in, ops,
          llm_in, llm_out, plan_in, plan_out,
          stream_gen, stream_worker, loop_ready, stream_queue, stream_consumer,
          fz_chapter, fz_file, fz_derived, fz_pending,
          vq_items, vq_clock, vq_key, vector_index_signatures, vector_index, vq_out,
          one_shot, book_chapters, book_runs, book_out>>

\* the variables of the earlier specifications, and their value while unused
EarlierVars ==
    <<chapters, store, response, held, check_in, check_out, check_prev,
      budget_in, budgets, service, project_chapters, threads,
      threads_file, recomputes, pack, pack_in, chapter_ops>>
EarlierIdle ==
    /\ chapters = <<>>  /\ store = <<>> /\ response = <<>> /\ held = <<>>
    /\ check_in = <<>>  /\ check_out = <<>> /\ check_prev = <<>>
    /\ budget_in = 0    /\ budgets = <<>>
    /\ service = <<>>   /\ project_chapters = <<>> /\ threads = <<>>
    /\ threads_file = <<>> /\ recomputes = 0 /\ pack = <<>>
    /\ pack_in = <<>> /\ chapter_ops = <<>>

MergeVars == <<merge_in, merge_out>>
MergeIdle == merge_in = <<>> /\ merge_out = <<>>
SearchVars == <<search_in, search_out>>
SearchIdle == search_in = <<>> /\ search_out = <<>>
SyncVars == <<documents, memory_items>>
SyncIdle == documents = <<>> /\ memory_items = {}
GraphVars == <<graph_entities, graph_events, graph_in>>
GraphIdle == graph_entities = {} /\ graph_events = {} /\ graph_in = <<>>
RollVars == <<memory_md, memory_legacy, roll_in, ops>>
RollIdle == memory_md = <<>> /\ memory_legacy = <<>> /\ roll_in = <<>> /\ ops = 0

LLMVars == <<llm_in, llm_out>>
LLMIdle == llm_in = <<>> /\ llm_out = <<>>
PlanVars == <<plan_in, plan_out>>
PlanIdle == plan_in = <<>> /\ plan_out = <<>>
StreamVars == <<stream_gen, stream_worker, loop_ready, stream_queue, stream_consumer>>
StreamIdle ==
    /\ stream_gen = <<>> /\ stream_worker = <<>> /\ loop_ready = <<>>
    /\ stream_queue = <<>> /\ stream_consumer = <<>>
FinalizeVars == <<fz_chapter, fz_file, fz_derived, fz_pending>>
FinalizeIdle == fz_chapter = <<>> /\ fz_file = <<>> /\ fz_derived = <<>> /\ fz_pending = <<>>
QueryVars == <<vq_items, vq_clock, vq_key, vector_index_signatures, vector_index, vq_out>>
QueryIdle ==
    /\ vq_items = {} /\ vq_clock = 0 /\ vq_key = FALSE /\ vector_index_signatures = {}
    /\ vector_index = {} /\ vq_out = <<>>
OneShotIdle == one_shot = <<>>

BookVars == <<book_chapters, book_runs, book_out>>
BookIdle == book_chapters = <<>> /\ book_runs = <<>> /\ book_out = 0

\* the variables of the last specifications, and their value while unused
LastVars == <<LLMVars, PlanVars, StreamVars, FinalizeVars, QueryVars, one_shot, BookVars>>
LastIdle == LLMIdle /\ PlanIdle /\ StreamIdle /\ FinalizeIdle /\ QueryIdle /\ OneShotIdle /\ BookIdle

\* the variables of the later specifications, and their value while unused
LaterVars ==
    <<merge_in, merge_out, search_in, search_out, documents, memory_items,
      graph_entities, graph_events, graph_in, memory_md, memory_legacy, roll_in, ops,
      LastVars>>
LaterIdle == MergeIdle /\ SearchIdle /\ SyncIdle /\ GraphIdle /\ RollIdle /\ LastIdle

\* the variables of the specifications before the last ones
OldVars == <<EarlierVars, MergeVars, SearchVars, SyncVars, GraphVars, RollVars>>
OldIdle == EarlierIdle /\ MergeIdle /\ SearchIdle /\ SyncIdle /\ GraphIdle /\ RollIdle

LLMFrame == UNCHANGED <<OldVars, PlanVars, StreamVars, FinalizeVars, QueryVars, one_shot, BookVars>>

\* Optional[str] None, Optional[int] None, and Python truthiness of a str
None == <<"None">>
NoneInt == -1
Truthy(s) == s # None /\ s # <<>>

(***************************************************************************)
(* Python built-ins on str / list                                          *)
(***************************************************************************)
MinOf(S) == CHOOSE x \in S : \A y \in S : x <= y
MaxOf(S) == CHOOSE x \in S : \A y \in S : x >= y

\* p in s
Contains(s, p) ==
    \E i \in 0..(Len(s) - Len(p)) : SubSeq(s, i + 1, i + Len(p)) = p

\* s.find(p): 0-based index of the first occurrence, -1 when absent
Find(s, p) ==
    IF Contains(s, p)
    THEN MinOf({i \in 0..(Len(s) - Len(p)) : SubSeq(s, i + 1, i + Len(p)) = p})
    ELSE -1

\* item in list
InList(x, l) == \E i \in 1..Len(l) : l[i] = x

Whitespace == {" ", "\n", "\t"}

\* s.strip(chars)
StripChars(s, cs) ==
    LET keep == {i \in 1..Len(s) : s[i] \notin cs}
    IN  IF keep = {} THEN <<>> ELSE SubSeq(s, MinOf(keep), MaxOf(keep))

\* s.strip()
Strip(s) == StripChars(s, Whitespace)

\* s.splitlines()
RECURSIVE SplitLines(_)
SplitLines(s) ==
    IF s = <<>> THEN <<>>
    ELSE LET nl == {i \in 1..Len(s) : s[i] = "\n"}
         IN  IF nl = {} THEN <<s>>
             ELSE <<SubSeq(s, 1, MinOf(nl) - 1)>>
                      \o SplitLines(SubSeq(s, MinOf(nl) + 1, Len(s)))

\* sep.join(parts)
RECURSIVE Join(_, _)
Join(sep, parts) ==
    IF parts = <<>> THEN <<>>
    ELSE IF Len(parts) = 1 THEN parts[1]
    ELSE parts[1] \o sep \o Join(sep, Tail(parts))

\* sum of a list of integers
RECURSIVE SumSeq(_)
SumSeq(l) == IF l = <<>> THEN 0 ELSE l[1] + SumSeq(Tail(l))

\* the decimal digits of a non-negative int, as str(n)
RECURSIVE Digits(_)
Digits(n) ==
    LET d == <<"0", "1", "2", "3", "4", "5", "6", "7", "8", "9">>
    IN  IF n < 10 THEN <<d[n + 1]>> ELSE Digits(n \div 10) \o <<d[(n % 10) + 1]>>

\* [y for x in l for y in F(x)]
RECURSIVE FlatMap(_, _)
FlatMap(F(_), l) ==
    IF l = <<>> THEN <<>>
    ELSE IF Len(l) = 1 THEN F(l[1])
    ELSE FlatMap(F, SubSeq(l, 1, Len(l) \div 2))
             \o FlatMap(F, SubSeq(l, (Len(l) \div 2) + 1, Len(l)))

\* [F(x) for x in l]
MapSeq(F(_), l) == [i \in 1..Len(l) |-> F(l[i])]

\* s.replace(p, "") for a non-empty p
RECURSIVE Remove(_, _)
Remove(s, p) ==
    IF Find(s, p) < 0 THEN s
    ELSE SubSeq(s, 1, Find(s, p))
             \o Remove(SubSeq(s, Find(s, p) + Len(p) + 1, Len(s)), p)

(***************************************************************************)
(* services/consistency.py                                                 *)
(***************************************************************************)
DigitChars == {"0", "1", "2", "3", "4", "5", "6", "7", "8", "9"}

DigitVal(c) == CHOOSE n \in 0..9 : Digits(n) = <<c>>

\* int(year) for a four-digit string
IntOf(y) == 1000 * DigitVal(y[1]) + 100 * DigitVal(y[2]) + 10 * DigitVal(y[3]) + DigitVal(y[4])

\* TimelineRule.check: re.findall of four digits, one of NIAN / -, one or two
\* digits, then optionally one of YUE / - and up to two digits; group 1.
\* NIAN is U+5E74, YUE is U+6708.  MatchEnd is the index after a match that
\* starts at i, or 0 when the pattern does not match at i.
MatchEnd(s, i) ==
    IF /\ i + 5 <= Len(s)
       /\ \A k \in 0..3 : s[i + k] \in DigitChars
       /\ s[i + 4] \in {"NIAN", "/", "-"}
       /\ s[i + 5] \in DigitChars
    THEN LET j == IF i + 6 <= Len(s) /\ s[i + 6] \in DigitChars THEN i + 7 ELSE i + 6
             k == IF j <= Len(s) /\ s[j] \in {"YUE", "/", "-"}
                  THEN IF j + 1 <= Len(s) /\ s[j + 1] \in DigitChars
                       THEN IF j + 2 <= Len(s) /\ s[j + 2] \in DigitChars
                            THEN j + 3 ELSE j + 2
                       ELSE j + 1
                  ELSE j
         IN  k
    ELSE 0

RECURSIVE FindYears(_, _)
FindYears(s, i) ==
    IF i > Len(s) THEN <<>>
    ELSE IF MatchEnd(s, i) > 0
         THEN <<SubSeq(s, i, i + 3)>> \o FindYears(s, MatchEnd(s, i))
         ELSE FindYears(s, i + 1)

time_mentions(draft) == FindYears(draft, 1)

\* A Conflict as a rule builds it; the engine's uuid4 id is attached by check.
NewConflict(severity, rule_id, evidence, reason, fix, chapter_id) ==
    [severity |-> severity, rule_id |-> rule_id, evidence_paths |-> <<evidence>>,
     reason |-> reason, suggested_fix |-> fix, chapter_id |-> chapter_id,
     resolved |-> FALSE, exempted |-> FALSE, resolution |-> None]

\* TimelineRule._contradicts
_contradicts(event, mention_year) ==
    IF event.timestamp = NoneInt THEN FALSE
    ELSE mention_year < event.timestamp - 1

\* TimelineRule.check
TimelineRule(draft, context) ==
    LET chapter_id == context.chapter_id
        PerYear(event) ==
            FlatMap(LAMBDA year :
                        IF _contradicts(event, IntOf(year))
                        THEN <<NewConflict("P1", "R1", <<"chapter", event.chapter>>,
                                           <<"timeline", event.chapter, year>>,
                                           "fix_timeline", chapter_id)>>
                        ELSE <<>>,
                    time_mentions(draft))
    IN  FlatMap(LAMBDA event : IF event.chapter >= chapter_id THEN <<>> ELSE PerYear(event),
                context.events)

\* SI WANG, QU SHI, SI LE, BEI SHA, BEI CI, DUAN QI, YAN QI, XIN ZANG TING ZHI
death_patterns ==
    << <<"SI", "WANG">>, <<"QU", "SHI">>, <<"SI", "LE">>, <<"BEI", "SHA">>,
       <<"BEI", "CI">>, <<"DUAN", "QI">>, <<"YAN", "QI">>,
       <<"XIN", "ZANG", "TING", "ZHI">> >>

\* CharacterStateRule.check
CharacterStateRule(draft, context) ==
    LET chapter_id == context.chapter_id
        Death(entity) ==
            FlatMap(LAMBDA pattern :
                        IF /\ Contains(draft, pattern) /\ Contains(draft, entity.name)
                           /\ entity.attrs.is_dead /\ entity.last_seen_chapter < chapter_id
                        THEN <<NewConflict("P0", "R2", <<"entity", entity.entity_id>>,
                                           <<"dead_character", entity.name>>,
                                           "fix_dead_character", chapter_id)>>
                        ELSE <<>>,
                    death_patterns)
        Ability(entity) ==
            FlatMap(LAMBDA ability :
                        IF /\ \/ Contains(draft, entity.name \o <<"BU", "HUI">> \o ability)
                              \/ Contains(draft, entity.name \o <<"MEI", "YOU">> \o ability)
                           /\ \/ Contains(draft, entity.name \o <<"HUI">> \o ability)
                              \/ Contains(draft, entity.name \o <<"YOU">> \o ability)
                        THEN <<NewConflict("P1", "R2", <<"entity", entity.entity_id>>,
                                           <<"ability", entity.name>>,
                                           "fix_ability", chapter_id)>>
                        ELSE <<>>,
                    entity.attrs.abilities)
    IN  FlatMap(LAMBDA entity :
                    IF entity.entity_type # "character" THEN <<>>
                    ELSE Death(entity) \o Ability(entity),
                context.entities)

\* SHA SI, SHA DIAO, XIAO MIE, DUI KANG, DI DUI, BEI1 PAN
hostile_patterns ==
    << <<"SHA", "SI">>, <<"SHA", "DIAO">>, <<"XIAO", "MIE">>, <<"DUI", "KANG">>,
       <<"DI", "DUI">>, <<"BEI1", "PAN">> >>

\* RelationRule.check
RelationRule(draft, context) ==
    LET chapter_id == context.chapter_id
        PerEvent(event) ==
            IF event.chapter >= chapter_id THEN <<>>
            ELSE IF event.relation \notin {"friend", "ally", "love"} THEN <<>>
            ELSE IF ~Truthy(event.object) THEN <<>>
            ELSE FlatMap(LAMBDA pattern :
                             IF /\ Contains(draft, event.subject)
                                /\ Contains(draft, event.object)
                                /\ Contains(draft, pattern)
                             THEN <<NewConflict("P1", "R3", <<"event", event.event_id>>,
                                                <<"relation", event.subject, event.object,
                                                  event.chapter, event.relation>>,
                                                "fix_relation", chapter_id)>>
                             ELSE <<>>,
                         hostile_patterns)
    IN  FlatMap(PerEvent, context.events)

\* WorldRule._normalize_for_match: the characters of the regex class are
\* deleted, then strip().  DQUOTE and BACKTICK are those two characters, the atoms starting with
\* F are the full-width brackets and punctuation of the class.
NormalizeChars ==
    Whitespace \cup {"[", "]", "(", ")", ":", ",", ";", "!", "?", "DQUOTE", "'", "BACKTICK",
                     "FLBRACKET", "FRBRACKET", "FLPAREN", "FRPAREN", "FCOLON",
                     "FCOMMA", "FSTOP", "FSEMI", "FBANG", "FQUESTION"}

_normalize_for_match(text) == Strip(SelectSeq(text, LAMBDA c : c \notin NormalizeChars))

BuNeng == <<"BU", "NENG">>
JinZhi == <<"JIN", "ZHI">>

\* [item for item in candidates if item and item not in unique], order kept
RECURSIVE Unique(_, _)
Unique(candidates, unique) ==
    IF candidates = <<>> THEN unique
    ELSE IF candidates[1] # <<>> /\ ~InList(candidates[1], unique)
         THEN Unique(Tail(candidates), Append(unique, candidates[1]))
         ELSE Unique(Tail(candidates), unique)

\* WorldRule._extract_forbidden_candidates
_extract_forbidden_candidates(rule) ==
    LET normalized_rule == _normalize_for_match(rule)
        FromMarker(marker) ==
            IF ~Contains(normalized_rule, marker) THEN <<>>
            ELSE LET at    == Find(normalized_rule, marker)
                     left  == SubSeq(normalized_rule, 1, at)
                     right == SubSeq(normalized_rule, at + Len(marker) + 1,
                                     Len(normalized_rule))
                     tail  == IF Len(left) > 2 THEN SubSeq(left, Len(left) - 1, Len(left))
                              ELSE left
                 IN  (IF right # <<>> THEN <<right>> ELSE <<>>)
                       \o (IF left # <<>> /\ right # <<>> THEN <<tail \o right>> ELSE <<>>)
        candidates == FromMarker(BuNeng) \o FromMarker(JinZhi)
    IN  IF normalized_rule = <<>> THEN <<>>
        ELSE IF candidates = <<>>
             THEN Unique(<<Remove(Remove(normalized_rule, BuNeng), JinZhi)>>, <<>>)
             ELSE Unique(candidates, <<>>)

\* WorldRule.check
WorldRule(draft, context) ==
    LET chapter_id == context.chapter_id
        stripped(line) == Strip(StripChars(line, {"-", "*", " "}))
        forbidden_statements ==
            SelectSeq(MapSeq(stripped, SplitLines(context.identity)),
                      LAMBDA st : Contains(st, BuNeng) \/ Contains(st, JinZhi))
        normalized_draft == _normalize_for_match(draft)
        PerRule(rule) ==
            IF \E i \in 1..Len(_extract_forbidden_candidates(rule)) :
                   LET candidate == _extract_forbidden_candidates(rule)[i]
                   IN  Len(candidate) >= 2 /\ Contains(normalized_draft, candidate)
            THEN <<NewConflict("P0", "R4", <<"IDENTITY.md">>, <<"world_rule", rule>>,
                               "fix_world_rule", chapter_id)>>
            ELSE <<>>
        PerTaboo(t) ==
            IF t # <<>> /\ Contains(draft, t)
            THEN <<NewConflict("P0", "R4", <<"IDENTITY.md">>, <<"taboo", t>>,
                               "fix_taboo", chapter_id)>>
            ELSE <<>>
    IN  FlatMap(PerRule, forbidden_statements) \o FlatMap(PerTaboo, context.taboo_constraints)

\* ForeshadowRule.check
ForeshadowRule(draft, context) ==
    LET chapter_id == context.chapter_id
        PerItem(fs) ==
            IF /\ fs.target_chapter = chapter_id
               /\ fs.keyword # <<>>
               /\ ~\E i \in 1..Len(context.callbacks) : Contains(context.callbacks[i], fs.keyword)
            THEN <<NewConflict("P2", "R5", <<"chapter", fs.source_chapter>>,
                               <<"foreshadow", fs.keyword>>, "fix_foreshadow", chapter_id)>>
            ELSE <<>>
    IN  FlatMap(PerItem, context.foreshadowings)

\* check with a conflict list that outlives the call (kept on the engine)
all_conflicts_kept(draft, context) ==
    (IF check_out = <<>> THEN <<>>
     ELSE [i \in 1..Len(check_out.conflicts) |->
              [f \in DOMAIN check_out.conflicts[i] \ {"id"} |-> check_out.conflicts[i][f]]])
        \o TimelineRule(draft, context) \o CharacterStateRule(draft, context)
        \o RelationRule(draft, context) \o WorldRule(draft, context)
        \o ForeshadowRule(draft, context)

\* ConsistencyEngine.check, lines 266-270: every rule in order
all_conflicts(draft, context) ==
    TimelineRule(draft, context) \o CharacterStateRule(draft, context)
        \o RelationRule(draft, context) \o WorldRule(draft, context)
        \o ForeshadowRule(draft, context)

BySeverity(conflicts, severity) == SelectSeq(conflicts, LAMBDA c : c.severity = severity)

\* The result dict of ConsistencyEngine.check over the conflict list cs
CheckResult(cs) ==
    [can_submit      |-> Len(BySeverity(cs, "P0")) = 0,
     total_conflicts |-> Len(cs),
     p0_count        |-> Len(BySeverity(cs, "P0")),
     p1_count        |-> Len(BySeverity(cs, "P1")),
     p2_count        |-> Len(BySeverity(cs, "P2")),
     conflicts       |-> cs,
     p0_conflicts    |-> BySeverity(cs, "P0"),
     p1_conflicts    |-> BySeverity(cs, "P1"),
     p2_conflicts    |-> BySeverity(cs, "P2")]

\* Conflict(id=str(uuid4()), ...): the k-th conflict built gets the k-th uuid drawn
WithIds(cs, uuids) ==
    [k \in 1..Len(cs) |-> [id |-> uuids[k]] @@ cs[k]]

\* ConsistencyEngine.check(draft, context) when uuid4() returns uuids[1], uuids[2], ...
check(draft, context, uuids) == CheckResult(WithIds(all_conflicts(draft, context), uuids))

\* ConsistencyEngine.resolve_conflict (resolved_at is not modelled)
resolve_conflict(conflict, resolution) ==
    [conflict EXCEPT !.resolved = TRUE, !.resolution = resolution]

\* ConsistencyEngine.exempt_conflict
exempt_conflict(conflict, reason) ==
    [conflict EXCEPT !.exempted = TRUE, !.resolution = <<"Exempted: ">> \o reason]

(***************************************************************************)
(* Inputs of the consistency engine: drafts, store content, identity text  *)
(***************************************************************************)
LinFeng == <<"LIN", "FENG">>
SuYao   == <<"SU", "YAO">>
Fei     == <<"FEI">>
DuPin   == <<"DU", "PIN">>
YuPei   == <<"YU", "PEI">>

DraftPlain    == LinFeng \o <<"LAI", "LE">>
DraftDead     == LinFeng \o <<"SI", "LE", "FSTOP">>
DraftDeadTwice == LinFeng \o <<"SI", "WANG", "FCOMMA", "SI", "LE">>
DraftYear     == <<"2", "0", "1", "9", "NIAN", "3", "YUE">> \o LinFeng
DraftHostile  == LinFeng \o <<"BEI1", "PAN">> \o SuYao
DraftForbidden == <<"MO", "FA", "FCOMMA", "FEI">>
DraftTaboo    == SuYao \o DuPin
DraftAbility  == LinFeng \o <<"BU", "HUI">> \o Fei \o <<"FSTOP">> \o LinFeng \o <<"HUI">> \o Fei
DraftMixed    == DraftDead \o DraftHostile \o DraftTaboo

DraftPool ==
    {DraftPlain, DraftDead, DraftDeadTwice, DraftYear, DraftHostile,
     DraftForbidden, DraftTaboo, DraftAbility, DraftMixed}

\* IDENTITY.md with one world rule "- MO FA BU NENG FEI" and one plain line
IdentityRules == <<"#", " ", "I", "D", "\n", "-", " ", "MO", "FA">> \o BuNeng \o Fei
                     \o <<"\n", "-", " ">> \o LinFeng
IdentityEmpty == <<"#", " ", "I", "D", "\n">>

Entity(id, type, name, is_dead, abilities, last_seen) ==
    [entity_id |-> id, entity_type |-> type, name |-> name,
     attrs |-> [is_dead |-> is_dead, abilities |-> abilities],
     last_seen_chapter |-> last_seen]

Event(id, subject, relation, object, chapter, year) ==
    [event_id |-> id, subject |-> subject, relation |-> relation, object |-> object,
     chapter |-> chapter, timestamp |-> year]

\* the context dict handed to check; absent keys take the defaults of context.get
Context(chapter_id, entities, events, identity, taboo, foreshadowings, callbacks) ==
    [chapter_id |-> chapter_id, entities |-> entities, events |-> events,
     identity |-> identity, taboo_constraints |-> taboo,
     foreshadowings |-> foreshadowings, callbacks |-> callbacks]

EntitiesDead  == <<Entity("e1", "character", LinFeng, TRUE, <<Fei>>, 1),
                   Entity("e2", "location", SuYao, TRUE, <<>>, 1)>>
EntitiesAlive == <<Entity("e1", "character", LinFeng, FALSE, <<Fei>>, 1)>>
EventsFriend  == <<Event("v1", LinFeng, "friend", SuYao, 1, 2026),
                   Event("v2", LinFeng, "ally", None, 1, NoneInt)>>
Foreshadowed  == <<[target_chapter |-> 2, keyword |-> YuPei, source_chapter |-> 1]>>

CheckContexts ==
    {Context(2, EntitiesDead, EventsFriend, IdentityRules, <<DuPin>>, Foreshadowed, <<>>),
     Context(2, EntitiesAlive, EventsFriend, IdentityEmpty, <<>>, Foreshadowed,
             <<YuPei \o LinFeng>>),
     Context(1, EntitiesDead, EventsFriend, IdentityRules, <<DuPin>>, <<>>, <<>>),
     Context(0, <<>>, <<>>, IdentityEmpty, <<>>, <<>>, <<>>)}

\* the values uuid4() may return
Uuids == {"u1", "u2"}

NoResult == <<>>

(***************************************************************************)
(* SpecCheck: ConsistencyEngine.check invoked repeatedly on one input      *)
(***************************************************************************)
InitCheck ==
    /\ chapters = <<>>  /\ store = <<>> /\ response = <<>> /\ held = <<>>
    /\ check_in \in DraftPool \X CheckContexts
    /\ check_out = NoResult /\ check_prev = NoResult
    /\ budget_in = 0    /\ budgets = <<>>
    /\ service = <<>>   /\ project_chapters = <<>> /\ threads = <<>>
    /\ threads_file = <<>> /\ recomputes = 0 /\ pack = <<>>
    /\ pack_in = <<>> /\ chapter_ops = <<>> /\ LaterIdle

\* engine.check(draft, context) on the same (draft, context) once more
Check ==
    /\ check_in # <<>>
    /\ \E cs \in {all_conflicts(check_in[1], check_in[2])} :
       \E uuids \in [1..Len(cs) -> Uuids] :
           check_out' = CheckResult(WithIds(cs, uuids))
    /\ check_prev' = check_out
    /\ UNCHANGED <<chapters, store, response, held, check_in, budget_in, budgets, service,
                   project_chapters, threads, threads_file, recomputes, pack, pack_in, chapter_ops, LaterVars>>

NextCheck == Check

SpecCheck == InitCheck /\ [][NextCheck]_vars

(***************************************************************************)
(* api/main.py: drafts, consistency results and review of a chapter        *)
(***************************************************************************)
ChapterIds == {"ch-a"}

\* drafts a request or the generation can deliver ("" included)
ReviewDrafts == {<<>>, DraftTaboo, DraftHostile, DraftHostile \o DraftTaboo}

Comments == {<<>>, <<"o", "k">>}

\* store.get_all_entities(), store.get_all_events(), three_layer.get_identity()
\* and project.taboo_constraints at the time of a check
StoreStates ==
    {[entities |-> EntitiesDead, events |-> EventsFriend, identity |-> IdentityRules,
      taboo_constraints |-> <<DuPin>>],
     [entities |-> EntitiesAlive, events |-> <<>>, identity |-> IdentityEmpty,
      taboo_constraints |-> <<DuPin>>]}

\* Chapter(...) as create_chapter builds it (models/__init__.py defaults)
NewChapter(id, number) ==
    [id |-> id, chapter_number |-> number, draft |-> None, final |-> None,
     status |-> "draft", word_count |-> 0, first_pass_ok |-> <<>>,
     p0_conflict_count |-> 0, conflicts |-> <<>>]

\* the context dict built in update_draft / finalize_generated_draft
StoreContext(chapter) ==
    Context(chapter.chapter_number, store.entities, store.events, store.identity,
            store.taboo_constraints, <<>>, <<>>)

Response(op, chapter_id, action, code, result, cached) ==
    [op |-> op, chapter_id |-> chapter_id, action |-> action, code |-> code,
     result |-> result, cached |-> cached]

\* review_chapter line 4094: the conflicts that block an approval
ApprovalBlockersMissed(chapter) ==
    SelectSeq(chapter.conflicts, LAMBDA c : c.severity = "p0" /\ ~c.exempted)

ApprovalBlockers(chapter) ==
    SelectSeq(chapter.conflicts, LAMBDA c : c.severity = "P0" /\ ~c.exempted)

\* review_chapter lines 4116-4119: the EXEMPT action over chapter.conflicts
ExemptEverything(conflicts, comment) ==
    [i \in 1..Len(conflicts) |->
        [conflicts[i] EXCEPT !.exempted = TRUE,
            !.resolution = IF comment # <<>> THEN comment ELSE <<"manual exemption">>]]

ExemptP1(conflicts, comment) ==
    [i \in 1..Len(conflicts) |->
        IF conflicts[i].severity = "P1"
        THEN [conflicts[i] EXCEPT !.exempted = TRUE,
                 !.resolution = IF comment # <<>> THEN comment ELSE <<"manual exemption">>]
        ELSE conflicts[i]]

\* _generate_draft_internal lines 3803-3813: the result served from chapter.conflicts
consistency_cached(chapter) ==
    LET cs == chapter.conflicts
    IN  [can_submit      |-> ~\E i \in 1..Len(cs) : cs[i].severity = "P0" /\ ~cs[i].exempted,
         total_conflicts |-> Len(cs),
         p0_count        |-> Len(BySeverity(cs, "P0")),
         p1_count        |-> Len(BySeverity(cs, "P1")),
         p2_count        |-> Len(BySeverity(cs, "P2")),
         conflicts       |-> cs,
         p0_conflicts    |-> BySeverity(cs, "P0"),
         p1_conflicts    |-> BySeverity(cs, "P1"),
         p2_conflicts    |-> BySeverity(cs, "P2")]

OtherUnchanged ==
    UNCHANGED <<check_in, check_out, check_prev, budget_in, budgets, service,
                project_chapters, threads, threads_file, recomputes, pack, pack_in, chapter_ops, LaterVars>>

\* PUT /api/chapters/{chapter_id}/draft
update_draft(chapter_id, draft) ==
    LET chapter == chapters[chapter_id]
    IN  \E cs \in {all_conflicts(draft, StoreContext(chapter))} :
        \E uuids \in [1..Len(cs) -> Uuids] :
            LET consistency == CheckResult(WithIds(cs, uuids))
            IN  /\ chapters' = [chapters EXCEPT ![chapter_id] =
                        [chapter EXCEPT
                            !.draft = draft,
                            !.word_count = Len(draft),
                            !.status = "reviewing",
                            !.conflicts = consistency.conflicts,
                            !.p0_conflict_count = consistency.p0_count,
                            !.first_pass_ok = IF chapter.first_pass_ok = <<>>
                                              THEN <<consistency.can_submit>>
                                              ELSE chapter.first_pass_ok]]
                /\ response' = Response("update_draft", chapter_id, "-", 200,
                                        consistency, FALSE)
                /\ held' = <<>>
                /\ UNCHANGED store
                /\ OtherUnchanged

\* finalize_generated_draft; upsert_graph_from_chapter rewrites the chapter's
\* entities and events from the draft, so the store moves within StoreStates
finalize_generated_draft(chapter_id, draft, op) ==
    LET chapter == chapters[chapter_id]
    IN  \E cs \in {all_conflicts(draft, StoreContext(chapter))} :
        \E uuids \in [1..Len(cs) -> Uuids] :
            LET consistency == CheckResult(WithIds(cs, uuids))
            IN  /\ chapters' = [chapters EXCEPT ![chapter_id] =
                        [chapter EXCEPT
                            !.draft = draft,
                            !.word_count = Len(draft),
                            !.status = "reviewing",
                            !.conflicts = consistency.conflicts,
                            !.first_pass_ok = <<consistency.can_submit>>,
                            !.p0_conflict_count = consistency.p0_count]]
                /\ IF draft # <<>> THEN store' \in StoreStates ELSE store' = store
                /\ response' = Response(op, chapter_id, "-", 200, consistency, FALSE)
                /\ held' = <<>>
                /\ OtherUnchanged

\* _generate_draft_internal(chapter_id, force): POST .../draft is force=True,
\* GET .../draft/stream passes its own force
_generate_draft_internal(chapter_id, force) ==
    LET chapter == chapters[chapter_id]
    IN  IF Truthy(chapter.draft) /\ ~force
        THEN /\ response' = Response("generate_draft", chapter_id, "-", 200,
                                     consistency_cached(chapter), TRUE)
             /\ held' = <<>>
             /\ UNCHANGED <<chapters, store>>
             /\ OtherUnchanged
        ELSE \E draft \in ReviewDrafts :
                 finalize_generated_draft(chapter_id, draft, "generate_draft")

\* POST /api/review
review_chapter(chapter_id, action, comment) ==
    LET chapter == chapters[chapter_id]
        After ==
            CASE action = "approve" ->
                     [chapter EXCEPT !.final = chapter.draft, !.status = "approved"]
              [] action = "reject"  -> [chapter EXCEPT !.status = "draft"]
              [] action = "rewrite" -> [chapter EXCEPT !.status = "draft", !.draft = None]
              [] action = "rescan"  -> [chapter EXCEPT !.status = "reviewing"]
              [] action = "exempt"  ->
                     [chapter EXCEPT !.conflicts = ExemptP1(chapter.conflicts, comment)]
    IN  IF action = "approve" /\ ApprovalBlockers(chapter) # <<>>
        THEN /\ response' = Response("review", chapter_id, action, 400, NoResult, FALSE)
             /\ held' = <<>>
             /\ UNCHANGED <<chapters, store>>
             /\ OtherUnchanged
        ELSE /\ chapters' = [chapters EXCEPT ![chapter_id] = After]
             /\ response' = Response("review", chapter_id, action, 200, NoResult, FALSE)
             /\ held' = <<>>
             /\ UNCHANGED store
             /\ OtherUnchanged

ReviewActions == {"approve", "reject", "rewrite", "exempt", "rescan"}

\* A caller hands a conflict of the latest consistency result to the engine;
\* the object it gets back lives until its next request.
EngineExempt ==
    /\ response.result # NoResult
    /\ \E i \in 1..Len(response.result.conflicts), reason \in Comments :
           held' = exempt_conflict(response.result.conflicts[i], reason)
    /\ UNCHANGED <<chapters, store, response>>
    /\ OtherUnchanged

EngineResolve ==
    /\ response.result # NoResult
    /\ \E i \in 1..Len(response.result.conflicts), resolution \in Comments :
           held' = resolve_conflict(response.result.conflicts[i], resolution)
    /\ UNCHANGED <<chapters, store, response>>
    /\ OtherUnchanged

UpdateDraft == \E id \in ChapterIds, draft \in ReviewDrafts : update_draft(id, draft)

GenerateDraft == \E id \in ChapterIds, force \in BOOLEAN : _generate_draft_internal(id, force)

Review ==
    \E id \in ChapterIds, action \in ReviewActions, comment \in Comments :
        review_chapter(id, action, comment)

Init ==
    /\ chapters = [id \in ChapterIds |-> NewChapter(id, 2)]
    /\ store \in StoreStates
    /\ response = Response("-", "-", "-", 200, NoResult, FALSE)
    /\ held = <<>>
    /\ check_in = <<>>  /\ check_out = NoResult /\ check_prev = NoResult
    /\ budget_in = 0    /\ budgets = <<>>
    /\ service = <<>>   /\ project_chapters = <<>> /\ threads = <<>>
    /\ threads_file = <<>> /\ recomputes = 0 /\ pack = <<>>
    /\ pack_in = <<>> /\ chapter_ops = <<>> /\ LaterIdle

Next == UpdateDraft \/ GenerateDraft \/ Review \/ EngineExempt \/ EngineResolve

Spec == Init /\ [][Next]_vars

(***************************************************************************)
(* utils/text_cleaner.py                                                   *)
(***************************************************************************)
LowerLetters ==
    <<"a", "b", "c", "d", "e", "f", "g", "h", "i", "j", "k", "l", "m", "n",
      "o", "p", "q", "r", "s", "t", "u", "v", "w", "x", "y", "z">>

UpperLetters ==
    <<"A", "B", "C", "D", "E", "F", "G", "H", "I", "J", "K", "L", "M", "N",
      "O", "P", "Q", "R", "S", "T", "U", "V", "W", "X", "Y", "Z">>

Range(l) == {l[i] : i \in 1..Len(l)}

\* the characters of the class [a-zA-Z0-9_]
WordChars == Range(LowerLetters) \cup Range(UpperLetters) \cup DigitChars \cup {"_"}

\* KEYWORD_STOPWORDS: thirty one-ideograph words (de, le, he, yu, zai, shi, ...)
KEYWORD_STOPWORDS ==
    {<<c>> : c \in {"DE", "LE", "HE", "YU3", "ZAI", "SHI", "YOU", "BU", "ZHE", "NA",
                    "YE", "DOU", "JIU", "ER", "DAN", "YOU4", "HUO", "BEI", "BA", "DUI",
                    "CONG", "XIANG", "WEI", "YI", "DAO", "RANG", "GEI", "YONG", "JIANG",
                    "HUI"}}

\* the ideographs (U+4E00..U+9FFF) that occur in the inputs
Ideographs ==
    {w[1] : w \in KEYWORD_STOPWORDS}
        \cup {"LIN", "FENG", "SU", "YAO", "YU", "PEI", "JIAN", "MEN", "KAI", "ZAN", "WU"}

\* str.lower() of one character, and of a str
LowerChar(c) ==
    IF c \in Range(UpperLetters)
    THEN LowerLetters[CHOOSE i \in 1..Len(UpperLetters) : UpperLetters[i] = c]
    ELSE c

Lower(s) == [i \in 1..Len(s) |-> LowerChar(s[i])]

\* DEFAULT_BLOCKLIST
DEFAULT_BLOCKLIST ==
    {<<"i", "d">>,
     <<"d", "e", "s", "c", "r", "i", "p", "t", "i", "o", "n">>,
     <<"i", "t", "e", "m">>,
     <<"t", "a", "r", "g", "e", "t">>,
     <<"s", "o", "u", "r", "c", "e", "_", "c", "h", "a", "p", "t", "e", "r">>,
     <<"p", "o", "t", "e", "n", "t", "i", "a", "l", "_", "u", "s", "e">>,
     <<"t", "y", "p", "e">>,
     <<"g", "o", "a", "l">>}

MIN_KEYWORD_LENGTH == 2

\* _TOKEN_RE.findall(s): maximal runs of word characters, and single ideographs
RECURSIVE Tokens(_)
Tokens(s) ==
    IF s = <<>> THEN <<>>
    ELSE IF s[1] \in WordChars
    THEN LET stop == {i \in 1..Len(s) : s[i] \notin WordChars}
             n == IF stop = {} THEN Len(s) ELSE MinOf(stop) - 1
         IN  <<SubSeq(s, 1, n)>> \o Tokens(SubSeq(s, n + 1, Len(s)))
    ELSE IF s[1] \in Ideographs
    THEN <<<<s[1]>>>> \o Tokens(Tail(s))
    ELSE Tokens(Tail(s))

\* is_pseudo_field_line: blocked_count / len(tokens) > 0.5
is_pseudo_field_line(line) ==
    LET tokens == Tokens(line)
        blocked(t) == Lower(t) \in DEFAULT_BLOCKLIST
        blocked_count == Len(SelectSeq(tokens, blocked))
    IN  IF tokens = <<>> THEN FALSE
        ELSE 2 * blocked_count > Len(tokens)

\* clean_foreshadowing_text
clean_foreshadowing_text(text) ==
    LET kept(line) == Strip(line) = <<>> \/ ~is_pseudo_field_line(Strip(line))
    IN  IF text = <<>> THEN <<>>
        ELSE Join(<<"\n">>, SelectSeq(SplitLines(text), kept))

\* the loop of extract_keywords, lines 109-117
RECURSIVE KeywordLoop(_, _)
KeywordLoop(tokens, keywords) ==
    IF tokens = <<>> THEN keywords
    ELSE LET t == Lower(tokens[1])
         IN  IF Len(t) < MIN_KEYWORD_LENGTH \/ t \in KEYWORD_STOPWORDS \/ InList(t, keywords)
             THEN KeywordLoop(Tail(tokens), keywords)
             ELSE KeywordLoop(Tail(tokens), Append(keywords, t))

\* extract_keywords
extract_keywords(text) ==
    IF text = <<>> THEN <<>> ELSE KeywordLoop(Tokens(text), <<>>)

(***************************************************************************)
(* services/memory_context.py: token budgets                               *)
(***************************************************************************)
\* the keys of _BUDGET_RATIOS in dict order
BudgetFields ==
    <<"identity_core", "runtime_state", "memory_compact", "previous_synopsis",
      "open_threads", "previous_chapters", "budget_stats">>

\* _BUDGET_RATIOS, in hundredths
_BUDGET_RATIOS ==
    [identity_core |-> 15, runtime_state |-> 10, memory_compact |-> 15,
     previous_synopsis |-> 10, open_threads |-> 10, previous_chapters |-> 35,
     budget_stats |-> 5]

_MIN_FIELD_BUDGET == 512

\* int(a / b) for b > 0: Python's int() truncates toward zero
IntQuot(a, b) == IF a >= 0 THEN a \div b ELSE -((-a) \div b)

\* sum(budgets.values())
SumValues(d) == SumSeq([i \in 1..Len(BudgetFields) |-> d[BudgetFields[i]]])

\* _compute_field_budgets with input_budget_tokens given.  The float products
\* int(B * ratio) and int(v * (B / total)) equal the integer quotients below
\* for every B the specifications draw.
_compute_field_budgets(input_budget_tokens) ==
    LET floored == [f \in DOMAIN _BUDGET_RATIOS |->
                       MaxOf({IntQuot(input_budget_tokens * _BUDGET_RATIOS[f], 100),
                              _MIN_FIELD_BUDGET})]
        total == SumValues(floored)
    IN  IF total > input_budget_tokens /\ input_budget_tokens > 0
        THEN [f \in DOMAIN floored |->
                 MaxOf({1, (floored[f] * input_budget_tokens) \div total})]
        ELSE floored

(***************************************************************************)
(* services/memory_context.py: open threads                                *)
(***************************************************************************)
\* s.startswith(p)
StartsWith(s, p) == Len(s) >= Len(p) /\ SubSeq(s, 1, Len(p)) = p

\* one character of repr(s) between the quotes
ReprChar(c, quote) ==
    IF c = "\n" THEN <<"\\", "n">>
    ELSE IF c = "\t" THEN <<"\\", "t">>
    ELSE IF c = "\\" THEN <<"\\", "\\">>
    ELSE IF c = quote THEN <<"\\", c>>
    ELSE <<c>>

\* repr(s) of a str: single quotes unless s holds ' and no "
StrRepr(s) ==
    LET has(c) == \E i \in 1..Len(s) : s[i] = c
        quote == IF has("'") /\ ~has("DQUOTE") THEN "DQUOTE" ELSE "'"
        body(c) == ReprChar(c, quote)
    IN  IF has("\n") \/ has("\t") \/ has("\\") \/ has(quote)
        THEN <<quote>> \o FlatMap(body, s) \o <<quote>>
        ELSE <<quote>> \o s \o <<quote>>

\* repr of a list of str, and of a set of str iterated in the given order
ListRepr(l) == <<"[">> \o Join(<<",", " ">>, MapSeq(StrRepr, l)) \o <<"]">>
SetRepr(l) == <<"{">> \o Join(<<",", " ">>, MapSeq(StrRepr, l)) \o <<"}">>

Reverse(l) == [i \in 1..Len(l) |-> l[Len(l) + 1 - i]]

\* the iteration order of a set of str depends on the interpreter's hash seed
HashSeeds == {0, 1}
SetOrder(S, l, seed) ==
    LET member(k) == k \in S
    IN  IF seed = 0 THEN SelectSeq(l, member) ELSE Reverse(SelectSeq(l, member))

EvidenceCallback ==
    <<"c", "a", "l", "l", "b", "a", "c", "k", "_", "t", "a", "r", "g", "e",
      "t", ":", " ">>
EvidenceCallbackKeywords ==
    <<"c", "a", "l", "l", "b", "a", "c", "k", "_", "t", "a", "r", "g", "e",
      "t", " ", "k", "e", "y", "w", "o", "r", "d", " ", "m", "a", "t", "c",
      "h", ":", " ">>
EvidenceText ==
    <<"k", "e", "y", "w", "o", "r", "d", " ", "m", "a", "t", "c", "h", " ",
      "i", "n", " ", "t", "e", "x", "t", ":", " ">>

\* lines 351-357
NewThread(chapter_number, text) ==
    [source_chapter |-> chapter_number, text |-> text, status |-> "open",
     resolved_by_chapter |-> NoneInt, evidence |-> <<>>]

Resolved(thread, later_num, evidence) ==
    [thread EXCEPT !.status = "resolved", !.resolved_by_chapter = later_num,
                   !.evidence = evidence]

\* line 385 and line 399: the keyword-overlap threshold
EnoughKeywords(matched, fs_keywords) ==
    matched >= 2 \/ (matched = 1 /\ Len(fs_keywords) <= 2)

\* line 375 without the verbatim test: nothing matches by containment
callback_contains_never(cleaned, cb) == FALSE

\* line 375: cb and cleaned.strip() in cb or (cb and cb in cleaned.strip())
callback_contains(cleaned, cb) ==
    (Truthy(cb) /\ Contains(cb, Strip(cleaned)))
        \/ (Truthy(cb) /\ Contains(Strip(cleaned), cb))

\* lines 382-385: keyword overlap of the item with one callback
callback_overlap(fs_keywords, cb) == Range(fs_keywords) \cap Range(extract_keywords(cb))

callback_keywords(fs_keywords, cb) ==
    /\ fs_keywords # <<>> /\ extract_keywords(cb) # <<>>
    /\ EnoughKeywords(Cardinality(callback_overlap(fs_keywords, cb)), fs_keywords)

\* lines 374-390: the evidence of the first callback that matches, "" when none does
RECURSIVE ScanCallbacks(_, _, _, _)
ScanCallbacks(callbacks, cleaned, fs_keywords, seed) ==
    IF callbacks = <<>> THEN <<>>
    ELSE IF callback_contains(cleaned, callbacks[1])
    THEN EvidenceCallback \o callbacks[1]
    ELSE IF callback_keywords(fs_keywords, callbacks[1])
    THEN EvidenceCallbackKeywords
             \o SetRepr(SetOrder(callback_overlap(fs_keywords, callbacks[1]),
                                 fs_keywords, seed))
    ELSE ScanCallbacks(Tail(callbacks), cleaned, fs_keywords, seed)

\* line 396: later_ch.get("final") or later_ch.get("draft") or ""
later_text(later_ch) ==
    IF Truthy(later_ch.final) THEN later_ch.final
    ELSE IF Truthy(later_ch.draft) THEN later_ch.draft
    ELSE <<>>

\* line 398
matched_kw(fs_keywords, later_ch) ==
    LET hit(kw) == Contains(later_text(later_ch), kw)
    IN  SelectSeq(fs_keywords, hit)

\* lines 395-399: keyword fallback on the chapter text
text_keywords(fs_keywords, later_ch) ==
    /\ fs_keywords # <<>> /\ later_text(later_ch) # <<>>
    /\ EnoughKeywords(Len(matched_kw(fs_keywords, later_ch)), fs_keywords)

\* lines 368-404 for one later chapter: the resolved thread, or <<>> when unresolved
ResolveBy(later_ch, thread, cleaned, fs_keywords, seed) ==
    LET hit == IF later_ch.plan # <<>>
               THEN ScanCallbacks(later_ch.plan.callback_targets, cleaned, fs_keywords, seed)
               ELSE <<>>
    IN  IF hit # <<>> THEN Resolved(thread, later_ch.chapter_number, hit)
        ELSE IF text_keywords(fs_keywords, later_ch)
        THEN Resolved(thread, later_ch.chapter_number,
                      EvidenceText \o ListRepr(matched_kw(fs_keywords, later_ch)))
        ELSE <<>>

\* the scan without its break: the last chapter that matches wins
RECURSIVE ScanLaterNoBreak(_, _, _, _, _)
ScanLaterNoBreak(later, thread, cleaned, fs_keywords, seed) ==
    IF later = <<>> THEN thread
    ELSE IF later[Len(later)].chapter_number <= thread.source_chapter
    THEN ScanLaterNoBreak(SubSeq(later, 1, Len(later) - 1), thread, cleaned, fs_keywords, seed)
    ELSE IF ResolveBy(later[Len(later)], thread, cleaned, fs_keywords, seed) # <<>>
    THEN ResolveBy(later[Len(later)], thread, cleaned, fs_keywords, seed)
    ELSE ScanLaterNoBreak(SubSeq(later, 1, Len(later) - 1), thread, cleaned, fs_keywords, seed)

\* lines 363-404: the chapters in list order, stopping at the first that resolves
RECURSIVE ScanLater(_, _, _, _, _)
ScanLater(later, thread, cleaned, fs_keywords, seed) ==
    IF later = <<>> THEN thread
    ELSE IF later[1].chapter_number <= thread.source_chapter
    THEN ScanLater(Tail(later), thread, cleaned, fs_keywords, seed)
    ELSE IF ResolveBy(later[1], thread, cleaned, fs_keywords, seed) # <<>>
    THEN ResolveBy(later[1], thread, cleaned, fs_keywords, seed)
    ELSE ScanLater(Tail(later), thread, cleaned, fs_keywords, seed)

\* lines 344-406 for one foreshadowing item: no thread, or one thread
ThreadOfItem(fs_text, chapter_number, chapter_dicts, seed) ==
    LET cleaned == clean_foreshadowing_text(fs_text)
    IN  IF ~Truthy(fs_text) \/ Strip(cleaned) = <<>> THEN <<>>
        ELSE <<ScanLater(chapter_dicts, NewThread(chapter_number, Strip(cleaned)),
                         cleaned, extract_keywords(cleaned), seed)>>

\* lines 336-406 for one chapter
ThreadsOfChapter(ch, chapter_dicts, seed) ==
    LET item(fs_text) == ThreadOfItem(fs_text, ch.chapter_number, chapter_dicts, seed)
    IN  IF ch.plan = <<>> THEN <<>> ELSE FlatMap(item, ch.plan.foreshadowing)

\* a recompute that keeps the list of the run before
recompute_open_threads_kept(chapter_dicts, seed) ==
    LET chapter(ch) == ThreadsOfChapter(ch, chapter_dicts, seed)
    IN  threads \o FlatMap(chapter, chapter_dicts)

\* recompute_open_threads, the returned list
recompute_open_threads(chapter_dicts, seed) ==
    LET chapter(ch) == ThreadsOfChapter(ch, chapter_dicts, seed)
    IN  FlatMap(chapter, chapter_dicts)

\* sorted(l, key=...) as a stable insertion sort; Before(e, x) says that e,
\* already placed, stays ahead of the later element x
RECURSIVE StableSort(_, _)
StableSort(Before(_, _), l) ==
    IF l = <<>> THEN <<>>
    ELSE LET sorted == StableSort(Before, SubSeq(l, 1, Len(l) - 1))
             x == l[Len(l)]
             n == Cardinality({i \in 1..Len(sorted) : Before(sorted[i], x)})
         IN  SubSeq(sorted, 1, n) \o <<x>> \o SubSeq(sorted, n + 1, Len(sorted))

\* l[:n] and l[-n:]
FirstN(l, n) == SubSeq(l, 1, MinOf({n, Len(l)}))
LastN(l, n) == SubSeq(l, MaxOf({1, Len(l) - n + 1}), Len(l))

\* the pieces of OPEN_THREADS.md
FileTitle ==
    <<"#", " ", "O", "P", "E", "N", "_", "T", "H", "R", "E", "A", "D", "S",
      "\n">>
FileOpen ==
    <<"#", "#", " ", "O", "p", "e", "n">>
FileResolved ==
    <<"\n", "#", "#", " ", "R", "e", "s", "o", "l", "v", "e", "d">>
FileResolvedHeading ==
    <<"#", "#", " ", "R", "e", "s", "o", "l", "v", "e", "d">>
FileItem ==
    <<"-", " ", "[", "C", "h", ".">>
FileItemEnd ==
    <<"]", " ">>
FileEvidence ==
    <<" ", "|", " ", "e", "v", "i", "d", "e", "n", "c", "e", ":", " ">>
FilePending ==
    <<"p", "e", "n", "d", "i", "n", "g">>
FileArrow == <<"ARROW", "C", "h", ".">>
FileNone == <<"-", " ", "(", "ZAN", "WU", ")">>
FileRule ==
    <<"\n", "-", "-", "-">>
FileRecomputed ==
    <<"_", "L", "a", "s", "t", " ", "r", "e", "c", "o", "m", "p", "u", "t",
      "e", "d", ":", " ">>
FileTotal ==
    <<"_", "T", "o", "t", "a", "l", ":", " ">>
FileTotalOpen ==
    <<" ", "o", "p", "e", "n", ",", " ">>
FileTotalResolved ==
    <<" ", "r", "e", "s", "o", "l", "v", "e", "d", "_">>

MAX_RESOLVED_KEPT == 20

\* datetime.now().isoformat(), one opaque token per reading of the clock
Clock == {"NOW1", "NOW2"}

\* lines 421 and 436-439
open_line(t) ==
    FileItem \o Digits(t.source_chapter) \o FileItemEnd \o t.text \o FileEvidence
        \o (IF t.evidence # <<>> THEN t.evidence ELSE FilePending)

resolved_line(t) ==
    FileItem \o Digits(t.source_chapter) \o FileArrow \o Digits(t.resolved_by_chapter)
        \o FileItemEnd \o t.text \o FileEvidence \o t.evidence

\* _write_open_threads_file: the text written to OPEN_THREADS.md
_write_open_threads_file(thread_list, now) ==
    LET is_open(t) == t.status = "open"
        is_resolved(t) == t.status = "resolved"
        open_items == SelectSeq(thread_list, is_open)
        resolved_items == SelectSeq(thread_list, is_resolved)
        key(t) == IF t.resolved_by_chapter = NoneInt THEN 0 ELSE t.resolved_by_chapter
        newer(e, x) == key(e) >= key(x)
        sorted_resolved == FirstN(StableSort(newer, resolved_items), MAX_RESOLVED_KEPT)
    IN  Join(<<"\n">>,
             <<FileTitle, FileOpen>>
                 \o (IF open_items # <<>> THEN MapSeq(open_line, open_items) ELSE <<FileNone>>)
                 \o <<FileResolved>>
                 \o (IF resolved_items # <<>> THEN MapSeq(resolved_line, sorted_resolved)
                     ELSE <<FileNone>>)
                 \o <<FileRule,
                      FileRecomputed \o <<now>> \o <<"_">>,
                      FileTotal \o Digits(Len(open_items)) \o FileTotalOpen
                          \o Digits(Len(resolved_items)) \o FileTotalResolved>>)

\* OPEN_THREADS.md before the first write
NoFile == None

\* the loop of _read_open_threads_from_disk, lines 458-465
RECURSIVE ReadLines(_, _, _)
ReadLines(lines, current_status, acc) ==
    IF lines = <<>> THEN acc
    ELSE IF StartsWith(Strip(lines[1]), FileOpen)
    THEN ReadLines(Tail(lines), "open", acc)
    ELSE IF StartsWith(Strip(lines[1]), FileResolvedHeading)
    THEN ReadLines(Tail(lines), "resolved", acc)
    ELSE IF StartsWith(Strip(lines[1]), FileItem) /\ Strip(lines[1]) # FileNone
    THEN ReadLines(Tail(lines), current_status,
                   Append(acc, [text |-> Strip(lines[1]), status |-> current_status]))
    ELSE ReadLines(Tail(lines), current_status, acc)

\* _read_open_threads_from_disk
_read_open_threads_from_disk(file) ==
    IF file = NoFile THEN <<>> ELSE ReadLines(SplitLines(file), "open", <<>>)

\* thread.get(key, default) for the keys a thread read from disk lacks
source_of(t) == IF "source_chapter" \in DOMAIN t THEN t.source_chapter ELSE 0
evidence_of(t) == IF "evidence" \in DOMAIN t THEN t.evidence ELSE <<>>

\* _score_thread_confidence times 1000 * distance: the score is
\* 0.5 / distance + 0.3 * evidence_score + 0.2 * min(len(text) / 200, 1)
distance(t, current_chapter) == MaxOf({1, current_chapter - source_of(t)})

_score_thread_confidence(t, current_chapter) ==
    500 + distance(t, current_chapter)
              * ((IF evidence_of(t) # <<>> /\ evidence_of(t) # FilePending THEN 300 ELSE 90)
                 + MinOf({Len(t.text), 200}))

\* _select_threads_by_confidence with min_confidence = 0.15
\* the selection without the [:top_k] slice
_select_threads_unlimited(open_threads, current_chapter, top_k) ==
    LET confident(t) ==
            _score_thread_confidence(t, current_chapter) >= 150 * distance(t, current_chapter)
        higher(e, x) ==
            _score_thread_confidence(e, current_chapter) * distance(x, current_chapter)
                >= _score_thread_confidence(x, current_chapter) * distance(e, current_chapter)
    IN  StableSort(higher, SelectSeq(open_threads, confident))

_select_threads_by_confidence(open_threads, current_chapter, top_k) ==
    LET confident(t) ==
            _score_thread_confidence(t, current_chapter) >= 150 * distance(t, current_chapter)
        higher(e, x) ==
            _score_thread_confidence(e, current_chapter) * distance(x, current_chapter)
                >= _score_thread_confidence(x, current_chapter) * distance(e, current_chapter)
    IN  FirstN(StableSort(higher, SelectSeq(open_threads, confident)), top_k)


(***************************************************************************)
(* services/memory_context.py: the context pack                            *)
(***************************************************************************)
\* the pieces of str(dict)
KeySourceChapter ==
    <<"{", "'", "s", "o", "u", "r", "c", "e", "_", "c", "h", "a", "p", "t",
      "e", "r", "'", ":", " ">>
KeyText ==
    <<",", " ", "'", "t", "e", "x", "t", "'", ":", " ">>
KeyOnlyText ==
    <<"{", "'", "t", "e", "x", "t", "'", ":", " ">>
KeyStatus ==
    <<",", " ", "'", "s", "t", "a", "t", "u", "s", "'", ":", " ">>
KeyResolvedBy ==
    <<",", " ", "'", "r", "e", "s", "o", "l", "v", "e", "d", "_", "b", "y",
      "_", "c", "h", "a", "p", "t", "e", "r", "'", ":", " ">>
KeyEvidence ==
    <<",", " ", "'", "e", "v", "i", "d", "e", "n", "c", "e", "'", ":", " ">>
KeyChapterNumber ==
    <<"{", "'", "c", "h", "a", "p", "t", "e", "r", "_", "n", "u", "m", "b",
      "e", "r", "'", ":", " ">>
KeyTitle ==
    <<",", " ", "'", "t", "i", "t", "l", "e", "'", ":", " ">>
KeyWordCount ==
    <<",", " ", "'", "w", "o", "r", "d", "_", "c", "o", "u", "n", "t", "'",
      ":", " ">>
NoneRepr ==
    <<"N", "o", "n", "e">>
StatusOpen ==
    <<"o", "p", "e", "n">>
StatusResolved ==
    <<"r", "e", "s", "o", "l", "v", "e", "d">>

StatusChars(status) == IF status = "open" THEN StatusOpen ELSE StatusResolved

\* str(thread) for a thread of recompute_open_threads or of the reader
ThreadStr(t) ==
    IF "source_chapter" \in DOMAIN t
    THEN KeySourceChapter \o Digits(t.source_chapter)
             \o KeyText \o StrRepr(t.text)
             \o KeyStatus \o StrRepr(StatusChars(t.status))
             \o KeyResolvedBy
             \o (IF t.resolved_by_chapter = NoneInt THEN NoneRepr
                 ELSE Digits(t.resolved_by_chapter))
             \o KeyEvidence \o StrRepr(t.evidence) \o <<"}">>
    ELSE KeyOnlyText \o StrRepr(t.text) \o KeyStatus \o StrRepr(StatusChars(t.status))
             \o <<"}">>

\* lines 194-199 and str(compact)
Compact(ch) ==
    [chapter_number |-> ch.chapter_number, title |-> ch.title, status |-> ch.status,
     word_count |-> ch.word_count]

CompactStr(c) ==
    KeyChapterNumber \o Digits(c.chapter_number) \o KeyTitle \o StrRepr(c.title)
        \o KeyStatus \o StrRepr(c.status) \o KeyWordCount \o Digits(c.word_count)
        \o <<"}">>

\* str(list) given the str of each element
ListStr(parts) == <<"[">> \o Join(<<",", " ">>, parts) \o <<"]">>

\* a truncation that counts every character it was given
_truncate_uncapped(text, budget_tokens) ==
    IF Len(text) <= budget_tokens * 2 THEN <<text, Len(text) \div 2>>
    ELSE <<SubSeq(text, 1, budget_tokens * 2), Len(text) \div 2>>

\* _truncate_to_budget: (text, tokens used)
_truncate_to_budget(text, budget_tokens) ==
    IF Len(text) <= budget_tokens * 2 THEN <<text, Len(text) \div 2>>
    ELSE <<SubSeq(text, 1, budget_tokens * 2), budget_tokens>>

\* line 88: int(context_window_tokens * input_budget_ratio), the ratio in hundredths
input_budget_tokens(svc) ==
    IntQuot(svc.context_window_tokens * svc.input_budget_ratio, 100)

\* lines 160-172: the synopsis of the previous chapter
previous_synopsis(chapter_number, synopses) ==
    LET hits == {i \in 1..Len(synopses) :
                    Contains(synopses[i].summary, Digits(chapter_number - 1))}
        found == IF hits = {} THEN <<>> ELSE synopses[MaxOf(hits)].content
    IN  IF chapter_number <= 1 THEN <<>>
        ELSE IF found # <<>> THEN found
        ELSE IF synopses # <<>> THEN synopses[Len(synopses)].content
        ELSE <<>>

\* lines 191-200
previous_chapters(chapter_number, chapter_dicts) ==
    LET earlier(c) == c.chapter_number < chapter_number
        ascending(e, x) == e.chapter_number <= x.chapter_number
    IN  MapSeq(Compact, LastN(StableSort(ascending, SelectSeq(chapter_dicts, earlier)), 5))

\* build_generation_context_pack, given the thread list of line 177 or 179
build_generation_context_pack(svc, chapter_number, chapter_dicts, all_threads, top_k) ==
    LET field_budgets == _compute_field_budgets(input_budget_tokens(svc))
        identity == _truncate_to_budget(svc.three_layer.identity,
                                        field_budgets.identity_core)
        runtime == _truncate_to_budget(svc.three_layer.runtime_state,
                                       field_budgets.runtime_state)
        memory == _truncate_to_budget(svc.three_layer.memory,
                                      field_budgets.memory_compact)
        synopsis == _truncate_to_budget(
                        previous_synopsis(chapter_number, svc.three_layer.synopses),
                        field_budgets.previous_synopsis)
        is_open(t) == t.status = "open"
        selected_threads == _select_threads_by_confidence(
                                SelectSeq(all_threads, is_open), chapter_number, top_k)
        threads_used == _truncate_to_budget(ListStr(MapSeq(ThreadStr, selected_threads)),
                                            field_budgets.open_threads)[2]
        prev_chapters == previous_chapters(chapter_number, chapter_dicts)
        prev_ch_used == _truncate_to_budget(ListStr(MapSeq(CompactStr, prev_chapters)),
                                            field_budgets.previous_chapters)[2]
    IN  [identity_core |-> identity[1],
         runtime_state |-> runtime[1],
         memory_compact |-> memory[1],
         previous_chapter_synopsis |-> synopsis[1],
         open_threads |-> selected_threads,
         previous_chapters_compact |-> prev_chapters,
         budget_stats |->
             [identity_core_budget |-> field_budgets.identity_core,
              identity_core_used |-> identity[2],
              runtime_state_budget |-> field_budgets.runtime_state,
              runtime_state_used |-> runtime[2],
              memory_compact_budget |-> field_budgets.memory_compact,
              memory_compact_used |-> memory[2],
              previous_synopsis_budget |-> field_budgets.previous_synopsis,
              previous_synopsis_used |-> synopsis[2],
              open_threads_budget |-> field_budgets.open_threads,
              open_threads_used |-> threads_used,
              previous_chapters_budget |-> field_budgets.previous_chapters,
              previous_chapters_used |-> prev_ch_used,
              total_budget |-> SumValues(field_budgets),
              total_used |-> identity[2] + runtime[2] + memory[2] + synopsis[2]
                                 + threads_used + prev_ch_used]]


(***************************************************************************)
(* Specification SpecBudget: _compute_field_budgets as a pure function     *)
(***************************************************************************)
MinInputBudget == -2
MaxInputBudget == 60
\* budgets around the point where the scale-down stops applying, and the default
InputBudgetSamples == {600, 2000, 3583, 3584, 3585, 19660}

InitBudget ==
    /\ chapters = <<>>  /\ store = <<>> /\ response = <<>> /\ held = <<>>
    /\ check_in = <<>>  /\ check_out = NoResult /\ check_prev = NoResult
    /\ budget_in \in (MinInputBudget..MaxInputBudget) \cup InputBudgetSamples
    /\ budgets = <<>>
    /\ service = <<>>   /\ project_chapters = <<>> /\ threads = <<>>
    /\ threads_file = <<>> /\ recomputes = 0 /\ pack = <<>>
    /\ pack_in = <<>> /\ chapter_ops = <<>> /\ LaterIdle

ComputeBudgets ==
    /\ budgets' = _compute_field_budgets(budget_in)
    /\ UNCHANGED <<chapters, store, response, held, check_in, check_out, check_prev,
                   budget_in, service, project_chapters, threads, threads_file,
                   recomputes, pack, pack_in, chapter_ops, LaterVars>>

NextBudget == ComputeBudgets

SpecBudget == InitBudget /\ [][NextBudget]_vars

(***************************************************************************)
(* Inputs of the MemoryContextService specifications                       *)
(***************************************************************************)
MaxChapters == 3
MaxRecomputes == 2

\* a text of n characters
RECURSIVE Text(_)
Text(n) ==
    IF n = 0 THEN <<>>
    ELSE IF n = 1 THEN <<"x">>
    ELSE Text(n \div 2) \o Text(n - (n \div 2))

\* foreshadowing texts: two keywords, three keywords, ideographs only (no
\* keyword), a pseudo-field line between two kept lines, only pseudo-field words
JadeKey ==
    <<"j", "a", "d", "e", " ", "k", "e", "y">>
OldJadeKey ==
    <<"o", "l", "d", " ", "j", "a", "d", "e", " ", "k", "e", "y">>
YuPeiLines == <<"YU", "\n", "i", "d", "\n", "PEI">>
IdItem ==
    <<"i", "d", " ", "i", "t", "e", "m">>
Jade ==
    <<"j", "a", "d", "e">>
KeyOfJade ==
    <<"k", "e", "y", " ", "o", "f", " ", "j", "a", "d", "e">>
TheJade ==
    <<"t", "h", "e", " ", "j", "a", "d", "e">>
OldKey ==
    <<"o", "l", "d", " ", "k", "e", "y">>
DraftStatus ==
    <<"d", "r", "a", "f", "t">>

ForeshadowingTexts == {JadeKey, OldJadeKey, YuPei, YuPeiLines, IdItem}

Plan(foreshadowing, callback_targets) ==
    [foreshadowing |-> foreshadowing, callback_targets |-> callback_targets]

ChapterDict(number, plan, draft, final, title) ==
    [chapter_number |-> number, plan |-> plan, draft |-> draft, final |-> final,
     title |-> title, status |-> DraftStatus,
     word_count |-> Len(IF Truthy(final) THEN final ELSE IF Truthy(draft) THEN draft ELSE <<>>)]

\* the chapters a project may hold under each chapter number
ChapterChoices(n) ==
    IF n = 1
    THEN {ChapterDict(1, Plan(<<t>>, <<>>), None, None, Text(1)) : t \in ForeshadowingTexts}
             \cup {ChapterDict(1, Plan(<<JadeKey, YuPei>>, <<>>), None, None, Text(1))}
    ELSE IF n = 2
    THEN {ChapterDict(2, <<>>, None, None, Text(2)),
          ChapterDict(2, Plan(<<>>, <<Jade>>), None, None, Text(2)),
          ChapterDict(2, Plan(<<YuPei>>, <<KeyOfJade>>), None, None, Text(2)),
          ChapterDict(2, <<>>, TheJade, None, Text(2)),
          ChapterDict(2, <<>>, Jade, OldKey, Text(2))}
    ELSE IF n = 3
    THEN {ChapterDict(3, Plan(<<>>, <<t>>), None, None, Text(3)) : t \in ForeshadowingTexts}
             \cup {ChapterDict(3, <<>>, JadeKey, None, Text(3))}
    ELSE {ChapterDict(n, <<>>, None, None, Text(1))}

\* the chapter lists of a project: chapter 1, then any later chapters, ascending
RECURSIVE ChapterLists(_)
ChapterLists(n) ==
    IF n = 1 THEN {<<c>> : c \in ChapterChoices(1)}
    ELSE ChapterLists(n - 1)
             \cup {Append(l, c) : l \in ChapterLists(n - 1), c \in ChapterChoices(n)}

Synopsis(summary, content) == [summary |-> summary, content |-> content]

\* IDENTITY.md, RUNTIME_STATE.md, MEMORY.md and the L3 chapter synopses
ThreeLayer(identity, runtime_state, memory, synopses) ==
    [identity |-> identity, runtime_state |-> runtime_state, memory |-> memory,
     synopses |-> synopses]

Service(context_window_tokens, three_layer) ==
    [context_window_tokens |-> context_window_tokens, input_budget_ratio |-> 60,
     three_layer |-> three_layer]

\* a small window and the default of __init__
ContextWindows == {8, 32768}

\* short documents under either window
Services ==
    {Service(w, l) :
        w \in ContextWindows,
        l \in {ThreeLayer(Text(3), <<>>, Text(2), <<>>),
               ThreeLayer(Text(1), Text(5), Text(4),
                          <<Synopsis(<<"c", "h", "1">>, Text(7)),
                            Synopsis(<<"c", "h", "9">>, Text(1))>>)}}

\* a title longer than the previous-chapters budget of the default window
LongTitle == Text(13800)

\* the default window with an identity document and a chapter title that are
\* longer than the budgets of their fields
LongService ==
    Service(32768, ThreeLayer(Text(5899), Text(5), Text(4),
                              <<Synopsis(<<"c", "h", "1">>, Text(7))>>))

LongChapters ==
    <<ChapterDict(1, Plan(<<JadeKey, YuPei>>, <<>>), None, None, Text(1)),
      ChapterDict(2, <<>>, None, None, LongTitle)>>

TopKs == {1, 10}

MemoryFrame ==
    UNCHANGED <<chapters, store, response, held, check_in, check_out, check_prev,
                budget_in, budgets, service, project_chapters, LaterVars>>

(***************************************************************************)
(* Specification SpecThreads: repeated recomputes over one chapter list    *)
(***************************************************************************)
InitThreads ==
    /\ chapters = <<>>  /\ store = <<>> /\ response = <<>> /\ held = <<>>
    /\ check_in = <<>>  /\ check_out = NoResult /\ check_prev = NoResult
    /\ budget_in = 0    /\ budgets = <<>>
    /\ service = <<>>
    /\ project_chapters \in ChapterLists(MaxChapters)
    /\ threads = <<>> /\ threads_file = NoFile /\ recomputes = 0 /\ pack = <<>>
    /\ pack_in = <<>> /\ chapter_ops = <<>> /\ LaterIdle

\* recompute_open_threads(project_chapters)
Recompute ==
    /\ recomputes < MaxRecomputes
    /\ \E seed \in HashSeeds, now \in Clock :
           /\ threads' = recompute_open_threads(project_chapters, seed)
           /\ threads_file' = _write_open_threads_file(threads', now)
    /\ recomputes' = recomputes + 1
    /\ chapter_ops' = <<>>
    /\ UNCHANGED <<pack, pack_in>>
    /\ MemoryFrame

NextThreads == Recompute

SpecThreads == InitThreads /\ [][NextThreads]_vars

(***************************************************************************)
(* Specification SpecPack: context-pack builds of one service              *)
(***************************************************************************)
\* chapter 1 with two foreshadowing items, alone or followed by a chapter 2
PackChapterLists ==
    {l \in ChapterLists(2) : l[1].plan.foreshadowing = <<JadeKey, YuPei>>}

Projects == (Services \X PackChapterLists) \cup {<<LongService, LongChapters>>}

InitPack ==
    /\ chapters = <<>>  /\ store = <<>> /\ response = <<>> /\ held = <<>>
    /\ check_in = <<>>  /\ check_out = NoResult /\ check_prev = NoResult
    /\ budget_in = 0    /\ budgets = <<>>
    /\ \E project \in Projects : service = project[1] /\ project_chapters = project[2]
    /\ threads = <<>> /\ threads_file = NoFile /\ recomputes = 0 /\ pack = <<>>
    /\ pack_in = <<>> /\ chapter_ops = <<>> /\ LaterIdle

\* build_generation_context_pack(chapter_number, project_chapters, top_k, read_only=False)
BuildPack ==
    /\ \E chapter_number \in 1..(MaxChapters + 1), top_k \in TopKs,
          seed \in HashSeeds, now \in Clock :
           /\ threads' = recompute_open_threads(project_chapters, seed)
           /\ threads_file' = _write_open_threads_file(threads', now)
           /\ pack' = build_generation_context_pack(service, chapter_number,
                                                    project_chapters, threads', top_k)
           /\ pack_in' = [chapter_number |-> chapter_number, top_k |-> top_k]
    /\ chapter_ops' = <<>>
    /\ UNCHANGED recomputes
    /\ MemoryFrame

\* build_generation_context_pack(chapter_number, project_chapters, top_k, read_only=True)
BuildPackReadOnly ==
    /\ \E chapter_number \in 1..(MaxChapters + 1), top_k \in TopKs :
           /\ pack' = build_generation_context_pack(
                          service, chapter_number, project_chapters,
                          _read_open_threads_from_disk(threads_file), top_k)
           /\ pack_in' = [chapter_number |-> chapter_number, top_k |-> top_k]
    /\ UNCHANGED <<threads, threads_file, recomputes, chapter_ops>>
    /\ MemoryFrame

NextPack == BuildPack \/ BuildPackReadOnly

SpecPack == InitPack /\ [][NextPack]_vars

(***************************************************************************)
(* Specification SpecEdits: recomputes of a project whose chapters are     *)
(* created, edited and deleted between them                                *)
(***************************************************************************)
MaxOps == 2

\* the chapters an edited project may hold under each chapter number
EditChoices(n) ==
    IF n = 1
    THEN {ChapterDict(1, Plan(<<JadeKey>>, <<>>), None, None, Text(1)),
          ChapterDict(1, Plan(<<JadeKey, YuPei>>, <<>>), None, None, Text(1))}
    ELSE IF n = 2
    THEN {ChapterDict(2, <<>>, None, None, Text(2)),
          ChapterDict(2, Plan(<<>>, <<Jade>>), None, None, Text(2)),
          ChapterDict(2, <<>>, TheJade, None, Text(2))}
    ELSE {ChapterDict(3, Plan(<<>>, <<JadeKey>>), None, None, Text(3)),
          ChapterDict(3, <<>>, JadeKey, None, Text(3))}

InitEdits ==
    /\ chapters = <<>>  /\ store = <<>> /\ response = <<>> /\ held = <<>>
    /\ check_in = <<>>  /\ check_out = NoResult /\ check_prev = NoResult
    /\ budget_in = 0    /\ budgets = <<>>
    /\ service = <<>>
    /\ \E c \in EditChoices(1) : project_chapters = <<c>>
    /\ threads = <<>> /\ threads_file = NoFile /\ recomputes = 0 /\ pack = <<>>
    /\ pack_in = <<>> /\ chapter_ops = <<>> /\ LaterIdle

EditsFrame ==
    UNCHANGED <<chapters, store, response, held, check_in, check_out, check_prev,
                budget_in, budgets, service, threads, threads_file, recomputes,
                pack, pack_in, LaterVars>>

\* create_chapter: a new chapter under the next chapter number
CreateChapter ==
    /\ Len(chapter_ops) < MaxOps
    /\ Len(project_chapters) >= 1
    /\ project_chapters[Len(project_chapters)].chapter_number < MaxChapters
    /\ \E c \in EditChoices(project_chapters[Len(project_chapters)].chapter_number + 1) :
           project_chapters' = Append(project_chapters, c)
    /\ chapter_ops' = Append(chapter_ops, "create")
    /\ EditsFrame

\* generate_plan / update_draft: a chapter gets another plan or another draft
EditChapter ==
    /\ Len(chapter_ops) < MaxOps
    /\ \E i \in 1..Len(project_chapters) :
       \E c \in EditChoices(project_chapters[i].chapter_number) \ {project_chapters[i]} :
           project_chapters' = [project_chapters EXCEPT ![i] = c]
    /\ chapter_ops' = Append(chapter_ops, "edit")
    /\ EditsFrame

\* _delete_chapter_internal: the chapter leaves the project
DeleteChapter ==
    /\ Len(chapter_ops) < MaxOps
    /\ \E i \in 1..Len(project_chapters) :
           project_chapters' = SubSeq(project_chapters, 1, i - 1)
                                   \o SubSeq(project_chapters, i + 1, Len(project_chapters))
    /\ chapter_ops' = Append(chapter_ops, "delete")
    /\ EditsFrame

NextEdits == Recompute \/ CreateChapter \/ EditChapter \/ DeleteChapter

SpecEdits == InitEdits /\ [][NextEdits]_vars

(***************************************************************************)
(* services/character_profile_merge.py: ProfileMergeEngine                 *)
(***************************************************************************)
LLM_EXTRACTED == "llm_extracted"
USER_OVERRIDE == "user_override"

\* models.CharacterRelationship / CharacterStateChange / ChapterEvent
CharacterRelationship(source_character, target_character, relation_type, chapter, description, override_source) ==
    [source_character |-> source_character, target_character |-> target_character,
     relation_type |-> relation_type, chapter |-> chapter,
     description |-> description, override_source |-> override_source]

CharacterStateChange(character, attribute, from_value, to_value, chapter) ==
    [character |-> character, attribute |-> attribute, from_value |-> from_value,
     to_value |-> to_value, chapter |-> chapter]

ChapterEvent(character, chapter, event_summary, importance) ==
    [character |-> character, chapter |-> chapter, event_summary |-> event_summary,
     importance |-> importance]

\* models.CharacterProfile
CharacterProfile(overview, personality, relationships, state_changes, chapter_events, last_updated_chapter, confidence, override_source, provenance, created_at, updated_at) ==
    [profile_id |-> "p1:ZhangSan", project_id |-> "p1", character_name |-> "ZhangSan",
     overview |-> overview, personality |-> personality,
     relationships |-> relationships, state_changes |-> state_changes,
     chapter_events |-> chapter_events, last_updated_chapter |-> last_updated_chapter,
     confidence |-> confidence, override_source |-> override_source,
     provenance |-> provenance, created_at |-> created_at, updated_at |-> updated_at]

\* the md5 of the JSON text of the key fields; json.dumps is one-to-one on
\* these lists and the digest is taken as collision-free, so the key is the
\* list itself
_rel_key(r) == <<r.source_character, r.target_character, r.relation_type, r.chapter>>
_sc_key(s) == <<s.character, s.attribute, s.to_value, s.chapter>>
_evt_key(e) == <<e.character, e.chapter, e.event_summary>>

\* key_fn(item), for the three key functions handed to _merge_list
KeyOf(key_fn, item) ==
    IF key_fn = "_rel_key" THEN _rel_key(item)
    ELSE IF key_fn = "_sc_key" THEN _sc_key(item)
    ELSE _evt_key(item)

\* {key_fn(item) for item in items}
KeysOf(key_fn, items) == {KeyOf(key_fn, items[i]) : i \in 1..Len(items)}

\* the loop of _merge_list that forgets the keys it has appended
RECURSIVE MergeLoopForgetful(_, _, _, _)
MergeLoopForgetful(result, existing_keys, incoming_items, key_fn) ==
    IF incoming_items = <<>> THEN result
    ELSE LET item == Head(incoming_items)
             k == KeyOf(key_fn, item)
         IN  IF k \in existing_keys
             THEN MergeLoopForgetful(result, existing_keys, Tail(incoming_items), key_fn)
             ELSE MergeLoopForgetful(Append(result, item), existing_keys,
                                     Tail(incoming_items), key_fn)

\* for item in incoming_items: ... of _merge_list
RECURSIVE MergeLoop(_, _, _, _)
MergeLoop(result, existing_keys, incoming_items, key_fn) ==
    IF incoming_items = <<>> THEN result
    ELSE LET item == Head(incoming_items)
             k == KeyOf(key_fn, item)
         IN  IF k \in existing_keys
             THEN MergeLoop(result, existing_keys, Tail(incoming_items), key_fn)
             ELSE MergeLoop(Append(result, item), existing_keys \cup {k},
                            Tail(incoming_items), key_fn)

\* a merge that appends every incoming item
_merge_list_concat(existing_items, incoming_items, key_fn) ==
    existing_items \o incoming_items

_merge_list(existing_items, incoming_items, key_fn) ==
    MergeLoop(existing_items, KeysOf(key_fn, existing_items), incoming_items, key_fn)

\* existing=None: no stored profile
NoProfile == [profile_id |-> "None"]

\* ProfileMergeEngine.merge(existing, incoming), run at time now
merge(existing, incoming, now) ==
    IF existing = NoProfile THEN incoming
    ELSE LET is_user_override == existing.override_source = USER_OVERRIDE
             overview ==
                 IF ~(is_user_override /\ existing.overview # <<>>)
                 THEN (IF incoming.overview # <<>> THEN incoming.overview
                       ELSE existing.overview)
                 ELSE existing.overview
             personality1 ==
                 IF ~(is_user_override /\ existing.personality # <<>>)
                 THEN (IF incoming.personality # <<>> THEN incoming.personality
                       ELSE existing.personality)
                 ELSE existing.personality
             personality ==
                 IF ~is_user_override
                 THEN (IF incoming.personality # <<>> THEN incoming.personality
                       ELSE existing.personality)
                 ELSE personality1
         IN  [profile_id |-> existing.profile_id,
              project_id |-> existing.project_id,
              character_name |-> existing.character_name,
              overview |-> overview,
              personality |-> personality,
              relationships |-> _merge_list(existing.relationships,
                                            incoming.relationships, "_rel_key"),
              state_changes |-> _merge_list(existing.state_changes,
                                            incoming.state_changes, "_sc_key"),
              chapter_events |-> _merge_list(existing.chapter_events,
                                             incoming.chapter_events, "_evt_key"),
              last_updated_chapter |-> MaxOf({existing.last_updated_chapter,
                                              incoming.last_updated_chapter}),
              confidence |-> incoming.confidence,
              override_source |-> existing.override_source,
              provenance |-> IF incoming.provenance # <<>> THEN incoming.provenance
                             ELSE existing.provenance,
              created_at |-> existing.created_at,
              updated_at |-> now]

(***************************************************************************)
(* Specification SpecMerge: merges of an incoming profile into a stored one *)
(***************************************************************************)
MaxProfileChapter == 2

ZhangSan == <<"ZHANG", "SAN">>
LiSi == <<"LI", "SI">>
ShiTu == <<"SHI", "TU">>
DiDui == <<"DI", "DUI">>

\* a master-disciple relationship of chapter 1 as the LLM and as the user
\* recorded it, the same of chapter 2, and a hostile one
RelLLM == CharacterRelationship(ZhangSan, LiSi, ShiTu, 1, <<>>, LLM_EXTRACTED)
RelUser == CharacterRelationship(ZhangSan, LiSi, ShiTu, 1, <<"u">>, USER_OVERRIDE)
RelLater == CharacterRelationship(ZhangSan, LiSi, ShiTu, MaxProfileChapter, <<>>, LLM_EXTRACTED)
RelHostile == CharacterRelationship(ZhangSan, LiSi, DiDui, 1, <<>>, LLM_EXTRACTED)

\* two state changes with one key (differing in from_value) and a third
ScA == CharacterStateChange(ZhangSan, <<"SHI", "LI">>, <<>>, <<"ZHU", "JI">>, 1)
ScB == CharacterStateChange(ZhangSan, <<"SHI", "LI">>, <<"LIAN", "QI">>, <<"ZHU", "JI">>, 1)
ScC == CharacterStateChange(ZhangSan, <<"SHI", "LI">>, <<>>, <<"JIN", "DAN">>, MaxProfileChapter)

\* two events with one key (differing in importance) and a third
EvtA == ChapterEvent(ZhangSan, 1, <<"CHU", "CHANG">>, 3)
EvtB == ChapterEvent(ZhangSan, 1, <<"CHU", "CHANG">>, 5)
EvtC == ChapterEvent(ZhangSan, MaxProfileChapter, <<"TU", "PO">>, 3)

\* (relationships, state_changes, chapter_events) of a profile
ProfileCollections ==
    {<<<<>>, <<>>, <<>>>>,
     <<<<RelLLM>>, <<ScA>>, <<EvtA>>>>,
     <<<<RelUser>>, <<ScB>>, <<EvtB>>>>,
     <<<<RelLater, RelLLM>>, <<ScC>>, <<EvtC, EvtA>>>>,
     <<<<RelHostile, RelUser>>, <<ScC, ScB>>, <<>>>>,
     <<<<RelLater, RelLater>>, <<ScA, ScB>>, <<EvtC, EvtC>>>>,
     <<<<RelLLM, RelHostile, RelUser>>, <<ScC, ScA, ScC>>, <<EvtB, EvtC, EvtA>>>>}

Profiles ==
    {CharacterProfile(overview, personality, c[1], c[2], c[3], last, 100, src, <<>>,
                      "NOW1", "NOW1") :
        overview \in {<<>>, <<"o">>}, personality \in {<<>>, <<"q">>},
        c \in ProfileCollections, last \in 1..MaxProfileChapter,
        src \in {LLM_EXTRACTED, USER_OVERRIDE}}

\* a freshly extracted profile: other texts, confidence and provenance
Extracted ==
    {CharacterProfile(overview, personality, c[1], c[2], c[3], last, 80,
                      LLM_EXTRACTED, <<"l", "l", "m">>, "NOW2", "NOW2") :
        overview \in {<<>>, <<"n">>}, personality \in {<<>>, <<"r">>},
        c \in ProfileCollections, last \in 1..MaxProfileChapter}

InitMerge ==
    /\ EarlierIdle /\ SearchIdle /\ SyncIdle /\ GraphIdle /\ RollIdle /\ LastIdle
    /\ \E existing \in Profiles \cup {NoProfile} :
           \/ \E incoming \in Extracted : merge_in = <<existing, incoming>>
           \/ existing # NoProfile /\ merge_in = <<existing, existing>>
    /\ merge_out = <<>>

\* engine.merge(existing=existing, incoming=incoming)
Merge ==
    /\ \E now \in Clock : merge_out' = merge(merge_in[1], merge_in[2], now)
    /\ UNCHANGED <<EarlierVars, merge_in, SearchVars, SyncVars, GraphVars, RollVars, LastVars>>

NextMerge == Merge

SpecMerge == InitMerge /\ [][NextMerge]_vars

(***************************************************************************)
(* memory/search.py: HybridSearchEngine                                    *)
(*                                                                         *)
(* Scores are kept as integers: a lexical score is the bm25 magnitude, a   *)
(* vector score is the distance in hundredths, a layer weight is in        *)
(* tenths, and fts_score, vector_score and combined_score are the source's *)
(* values times 2000.                                                      *)
(***************************************************************************)

\* self.layer_weights.get(layer, 0.5), in tenths
layer_weights(layer) ==
    IF layer = "L1" THEN 10 ELSE IF layer = "L2" THEN 7 ELSE 5

\* a row of fts_search / of VectorStore.search
FtsResult(item_id, layer, score) == [item_id |-> item_id, layer |-> layer, score |-> score]
VectorResult(item_id, layer, score) == [item_id |-> item_id, layer |-> layer, score |-> score]

\* item_map[item_id] = entry: a dict keeps the position of a key it already has
PutItem(item_map, entry) ==
    IF \E i \in 1..Len(item_map) : item_map[i].item_id = entry.item_id
    THEN [i \in 1..Len(item_map) |->
              IF item_map[i].item_id = entry.item_id THEN entry ELSE item_map[i]]
    ELSE Append(item_map, entry)

\* for r in fts_results: ...
RECURSIVE MergeFts(_, _)
MergeFts(item_map, fts_results) ==
    IF fts_results = <<>> THEN item_map
    ELSE LET r == Head(fts_results)
             weight == layer_weights(r.layer)
         IN  MergeFts(PutItem(item_map,
                              [item_id |-> r.item_id, layer |-> r.layer,
                               evidence |-> "fts",
                               fts_score |-> (100 - r.score) * 20,
                               vector_score |-> 0,
                               combined_score |-> (100 - r.score) * weight * 2]),
                      Tail(fts_results))

\* for r in vector_results: ...
RECURSIVE MergeVector(_, _)
MergeVector(item_map, vector_results) ==
    IF vector_results = <<>> THEN item_map
    ELSE LET r == Head(vector_results)
             weight == layer_weights(r.layer)
             known == {i \in 1..Len(item_map) : item_map[i].item_id = r.item_id}
         IN  MergeVector(
                 IF known # {}
                 THEN [i \in 1..Len(item_map) |->
                          IF i \in known
                          THEN [item_map[i] EXCEPT
                                   !.vector_score = (100 - r.score) * 20,
                                   !.combined_score = @ + (100 - r.score) * weight]
                          ELSE item_map[i]]
                 ELSE Append(item_map,
                             [item_id |-> r.item_id, layer |-> r.layer,
                              evidence |-> "None",
                              fts_score |-> 0,
                              vector_score |-> (100 - r.score) * 20,
                              combined_score |-> (100 - r.score) * weight * 2]),
                 Tail(vector_results))

_merge_results(fts_results, vector_results) ==
    MergeVector(MergeFts(<<>>, fts_results), vector_results)

\* the search without merged.sort(...)
search_unsorted(fts_results, query_embedding, stored_vectors, hybrid_top_k, filter_layers) ==
    LET vector_results == IF query_embedding THEN stored_vectors ELSE <<>>
        merged == _merge_results(fts_results, vector_results)
        kept(r) == InList(r.layer, filter_layers)
        filtered == IF filter_layers # <<>> THEN SelectSeq(merged, kept) ELSE merged
    IN  FirstN(filtered, hybrid_top_k)

\* HybridSearchEngine.search: fts_results is what fts_search returns,
\* stored_vectors what vector_store.search returns when asked;
\* filter_layers None or [] is <<>>
search(fts_results, query_embedding, stored_vectors, hybrid_top_k, filter_layers) ==
    LET vector_results == IF query_embedding THEN stored_vectors ELSE <<>>
        merged == _merge_results(fts_results, vector_results)
        kept(r) == InList(r.layer, filter_layers)
        filtered == IF filter_layers # <<>> THEN SelectSeq(merged, kept) ELSE merged
        higher(e, x) == e.combined_score >= x.combined_score
    IN  FirstN(StableSort(higher, filtered), hybrid_top_k)

(***************************************************************************)
(* Specification SpecSearch: hybrid searches over lexical and vector rows  *)
(***************************************************************************)
MaxResults == 2

\* the layer of each memory item
LayerOf(item_id) ==
    IF item_id = "a" THEN "L1" ELSE IF item_id = "b" THEN "L3" ELSE "L2"

\* lexical rows: bm25 magnitudes 0, 50 and beyond 100
FtsRows == {FtsResult(id, LayerOf(id), s) : id \in {"a", "b"}, s \in {0, 50, 150}}

\* vector rows: distances 0.1, 0.6 and 1.2
VectorRows == {VectorResult(id, LayerOf(id), d) : id \in {"b", "c"}, d \in {10, 60, 120}}

\* the lists of at most n rows
RECURSIVE RowLists(_, _)
RowLists(rows, n) ==
    IF n = 0 THEN {<<>>}
    ELSE RowLists(rows, n - 1)
             \cup {Append(l, r) : l \in {x \in RowLists(rows, n - 1) : Len(x) = n - 1},
                                  r \in rows}

HybridTopKs == {1, 30}

InitSearch ==
    /\ EarlierIdle /\ MergeIdle /\ SyncIdle /\ GraphIdle /\ RollIdle /\ LastIdle
    /\ \E f \in RowLists(FtsRows, MaxResults), v \in RowLists(VectorRows, MaxResults),
          e \in BOOLEAN, k \in HybridTopKs, layers \in {<<>>, <<"L1", "L3">>} :
           search_in = [fts_results |-> f, query_embedding |-> e, stored_vectors |-> v,
                        hybrid_top_k |-> k, filter_layers |-> layers]
    /\ search_out = <<>>

\* engine.search(query, query_embedding, ..., hybrid_top_k, filter_layers)
Search ==
    /\ search_out' = search(search_in.fts_results, search_in.query_embedding,
                            search_in.stored_vectors, search_in.hybrid_top_k,
                            search_in.filter_layers)
    /\ UNCHANGED <<EarlierVars, MergeVars, search_in, SyncVars, GraphVars, RollVars, LastVars>>

NextSearch == Search

SpecSearch == InitSearch /\ [][NextSearch]_vars

(***************************************************************************)
(* memory/__init__.py: the memory documents and table memory_items         *)
(***************************************************************************)
\* a document on disk / a path without a file
Document(text) == [exists |-> TRUE, text |-> text]
NoDocument == [exists |-> FALSE, text |-> <<>>]

IdentityPath == "memory/L1/IDENTITY.md"
MemoryPath == "memory/L2/MEMORY.md"
LogPaths == <<"logs/daily/2026-01-01.md">>
\* the files add_l3_item may create, in the order sorted() lists them
L3Paths == <<"memory/L3/u1.md", "memory/L3/u2.md">>

DocPaths == {IdentityPath, MemoryPath} \cup {LogPaths[i] : i \in 1..Len(LogPaths)}
                \cup {L3Paths[i] : i \in 1..Len(L3Paths)}

\* the paths of a sorted directory listing that have a file
Glob(docs, paths) == SelectSeq(paths, LAMBDA p : docs[p].exists)

\* ThreeLayerMemory.add_log: the log file with one more entry
add_log(docs, log_name, content) ==
    LET existing == IF docs[log_name].exists THEN docs[log_name].text ELSE <<>>
        prefix == IF Strip(existing) # <<>> THEN <<"\n", "\n">> ELSE <<>>
    IN  [docs EXCEPT ![log_name] = Document(existing \o prefix \o <<"#", " ">> \o content \o <<"\n">>)]

\* uuid5(NAMESPACE_URL, path): a function of the path alone (the digest is
\* taken as collision-free); the fresh id depends on the table as well
_file_item_id_fresh(source_path) == <<"uuid4", source_path, Cardinality(memory_items)>>

_file_item_id(source_path) == <<"uuid5", source_path>>

\* INSERT OR REPLACE INTO memory_items: the row replaces the row of its id
add_memory_item(rows, item) == {r \in rows : r.id # item.id} \cup {item}

\* the MemoryItem sync_file_memories derives from one file
SyncedItem(layer, file_path, content, now) ==
    [id |-> _file_item_id(file_path), layer |-> layer, source_path |-> file_path,
     summary |-> <<"sha1", content>>, content |-> content,
     importance |-> IF layer = "L1" THEN 8 ELSE IF layer = "L3" THEN 6 ELSE 5,
     recency |-> IF layer = "L2" THEN 8 ELSE IF layer = "L3" THEN 6 ELSE 4,
     created_at |-> now, updated_at |-> now, synced_from_file |-> TRUE]

\* for layer, file_path in source_files: ... of sync_file_memories
RECURSIVE SyncLoop(_, _, _, _)
SyncLoop(rows, docs, source_files, now) ==
    IF source_files = <<>> THEN rows
    ELSE LET layer == Head(source_files)[1]
             file_path == Head(source_files)[2]
             content == Strip(docs[file_path].text)
         IN  IF ~docs[file_path].exists \/ content = <<>>
             THEN SyncLoop(rows, docs, Tail(source_files), now)
             ELSE SyncLoop(add_memory_item(rows, SyncedItem(layer, file_path, content, now)),
                           docs, Tail(source_files), now)

\* (layer, path) for each path
Layered(layer, paths) == [i \in 1..Len(paths) |-> <<layer, paths[i]>>]

\* MemoryStore.sync_file_memories, run at time now
sync_file_memories(rows, docs, now) ==
    SyncLoop(rows, docs,
             <<<<"L1", IdentityPath>>, <<"L2", MemoryPath>>>>
                 \o Layered("L2", LastN(Glob(docs, LogPaths), 30))
                 \o Layered("L3", LastN(Glob(docs, L3Paths), 200)),
             now)

(***************************************************************************)
(* Specification SpecSync: sync passes between writes and removals of      *)
(* memory documents                                                        *)
(***************************************************************************)
MaxLogEntries == 1

\* the texts a document is written with: blank, plain, with a trailing blank
Blank == <<" ", "\n">>
DocTexts == {Blank, <<"a">>, <<"b", " ">>}
L3Texts == {<<"-", "a">>}

InitSync ==
    /\ EarlierIdle /\ MergeIdle /\ SearchIdle /\ GraphIdle /\ RollIdle /\ LastIdle
    /\ documents = [p \in DocPaths |->
                       IF p \in {IdentityPath, MemoryPath} THEN Document(<<"a">>)
                       ELSE NoDocument]
    /\ memory_items = {}

SyncFrame == UNCHANGED <<EarlierVars, MergeVars, SearchVars, GraphVars, RollVars, LastVars>>

\* update_identity / update_memory
UpdateDocument ==
    /\ \E p \in {IdentityPath, MemoryPath} : \E text \in DocTexts \ {documents[p].text} :
           documents' = [documents EXCEPT ![p] = Document(text)]
    /\ UNCHANGED memory_items
    /\ SyncFrame

\* add_log(content)
AddLog ==
    /\ \E i \in 1..Len(LogPaths) :
           /\ Cardinality({n \in 1..Len(documents[LogPaths[i]].text) :
                               documents[LogPaths[i]].text[n] = "#"}) < MaxLogEntries
           /\ documents' = add_log(documents, LogPaths[i], <<"x">>)
    /\ UNCHANGED memory_items
    /\ SyncFrame

\* add_l3_item(summary, content): a new file under a fresh name
AddL3Item ==
    /\ \E i \in 1..Len(L3Paths), text \in L3Texts :
           /\ ~documents[L3Paths[i]].exists
           /\ documents' = [documents EXCEPT ![L3Paths[i]] = Document(text)]
    /\ UNCHANGED memory_items
    /\ SyncFrame

\* scripts/refresh_memory.py clear_old_l3_synopses, scripts/dedup_l3.py:
\* an L3 file is unlinked
UnlinkL3 ==
    /\ \E i \in 1..Len(L3Paths) :
           /\ documents[L3Paths[i]].exists
           /\ documents' = [documents EXCEPT ![L3Paths[i]] = NoDocument]
    /\ UNCHANGED memory_items
    /\ SyncFrame

\* store.sync_file_memories()
Sync ==
    /\ \E now \in Clock : memory_items' = sync_file_memories(memory_items, documents, now)
    /\ UNCHANGED documents
    /\ SyncFrame

NextSync == UpdateDocument \/ AddLog \/ AddL3Item \/ UnlinkL3 \/ Sync

SpecSync == InitSync /\ [][NextSync]_vars

(***************************************************************************)
(* api/main.py upsert_graph_from_chapter and the tables entities, events   *)
(***************************************************************************)
ZhuJue == <<"ZHU", "JUE">>
GuanLian == <<"GUAN", "LIAN">>
DiDuiRelation == <<"DI", "DUI">>

\* a finished chapter as upsert_graph_from_chapter reads it: role_names is
\* the list its plan and texts yield (lines 1295-1308), relation the relation
\* infer_graph_relation reads from its text
GraphChapter(id, chapter_number, draft, role_names, relation) ==
    [id |-> id, chapter_number |-> chapter_number, draft |-> draft,
     role_names |-> role_names, relation |-> relation]

\* uuid5(NAMESPACE_URL, text): a function of the text (taken as collision-free)
EntityId(project_id, name) == <<"uuid5", project_id, "character", name>>
EventId(chapter, idx, subject, target, relation) ==
    <<"uuid5", chapter.id, chapter.chapter_number, idx, subject, target, relation>>

\* store.get_entity(entity_id): the row of the id, <<>> for None
get_entity(rows, entity_id) ==
    IF \E r \in rows : r.entity_id = entity_id
    THEN CHOOSE r \in rows : r.entity_id = entity_id
    ELSE <<>>

\* INSERT OR REPLACE INTO entities: add_entity stamps updated_at itself
add_entity(rows, entity, now) ==
    {r \in rows : r.entity_id # entity.entity_id} \cup {[entity EXCEPT !.updated_at = now]}

\* INSERT OR REPLACE INTO events
add_event(rows, event) == {r \in rows : r.event_id # event.event_id} \cup {event}

\* a deletion that leaves the rows in place
delete_events_kept(rows, chapter) == rows

\* DELETE FROM events WHERE chapter = ?
delete_events_for_chapter(rows, chapter) == {r \in rows : r.chapter # chapter}

\* role_names after the default of lines 1309-1310, cut to [:10]
RoleNames(chapter) ==
    FirstN(IF chapter.role_names = <<>> THEN <<ZhuJue>> ELSE chapter.role_names, 10)

\* for name in role_names[:10]: ... (lines 1312-1332)
RECURSIVE EntityLoop(_, _, _, _)
EntityLoop(rows, names, chapter, now) ==
    IF names = <<>> THEN rows
    ELSE LET name == Head(names)
             entity_id == EntityId("p1", name)
             known == get_entity(rows, entity_id)
             first_seen == IF known # <<>> THEN known.first_seen_chapter
                           ELSE chapter.chapter_number
             created_at == IF known # <<>> THEN known.created_at ELSE now
         IN  EntityLoop(
                 add_entity(rows,
                            [entity_id |-> entity_id, entity_type |-> "character",
                             name |-> name, attrs |-> [is_dead |-> FALSE],
                             constraints |-> <<>>,
                             first_seen_chapter |-> first_seen,
                             last_seen_chapter |-> chapter.chapter_number,
                             created_at |-> created_at, updated_at |-> now],
                            now),
                 Tail(names), chapter, now)

\* targets of lines 1336-1339; None is <<>>
Targets(role_names) ==
    LET others == SelectSeq(SubSeq(role_names, 2, MinOf({5, Len(role_names)})),
                            LAMBDA n : n # role_names[1])
    IN  IF others = <<>> THEN <<None>> ELSE others

\* for idx, target in enumerate(targets): ... (lines 1353-1373)
RECURSIVE EventLoop(_, _, _, _, _)
EventLoop(rows, idx, targets, chapter, now) ==
    IF idx >= Len(targets) THEN rows
    ELSE LET subject == RoleNames(chapter)[1]
             target == targets[idx + 1]
         IN  EventLoop(
                 add_event(rows,
                           [event_id |-> EventId(chapter, idx, subject,
                                                 IF target = None THEN <<>> ELSE target,
                                                 chapter.relation),
                            subject |-> subject, relation |-> chapter.relation,
                            object |-> target, chapter |-> chapter.chapter_number,
                            timestamp |-> now, confidence |-> 65]),
                 idx + 1, targets, chapter, now)

\* upsert_graph_from_chapter(store, chapter) with the graph feature enabled:
\* the rows of tables entities and events afterwards
upsert_graph_from_chapter(entity_rows, event_rows, chapter, now) ==
    IF ~Truthy(chapter.draft) THEN <<entity_rows, event_rows>>
    ELSE <<EntityLoop(entity_rows, RoleNames(chapter), chapter, now),
           EventLoop(delete_events_for_chapter(event_rows, chapter.chapter_number),
                     0, Targets(RoleNames(chapter)), chapter, now)>>

(***************************************************************************)
(* Specification SpecGraph: chapters finished and finished again, in any   *)
(* order                                                                   *)
(***************************************************************************)
MaxGraphChapter == 2
MaxUpserts == 3

\* chapters with a draft, and chapters without one
GraphChapters ==
    {GraphChapter(<<"c", n>>, n, <<"x">>, names, relation) :
        n \in 1..MaxGraphChapter,
        names \in {<<>>, <<LinFeng, SuYao>>, <<SuYao, SuYao, LinFeng>>},
        relation \in {GuanLian, DiDuiRelation}}
      \cup {GraphChapter(<<"c", n>>, n, <<>>, <<LinFeng>>, GuanLian) : n \in 1..MaxGraphChapter}

InitGraph ==
    /\ EarlierIdle /\ MergeIdle /\ SearchIdle /\ SyncIdle /\ LastIdle
    /\ graph_entities = {} /\ graph_events = {} /\ graph_in = <<>>
    /\ memory_md = <<>> /\ memory_legacy = <<>> /\ roll_in = <<>> /\ ops = 0

\* finalize_generated_draft: upsert_graph_from_chapter(store, chapter)
UpsertGraph ==
    /\ ops < MaxUpserts
    /\ \E chapter \in GraphChapters, now \in Clock :
           /\ graph_in' = chapter
           /\ graph_entities' =
                  upsert_graph_from_chapter(graph_entities, graph_events, chapter, now)[1]
           /\ graph_events' =
                  upsert_graph_from_chapter(graph_entities, graph_events, chapter, now)[2]
    /\ ops' = ops + 1
    /\ UNCHANGED <<EarlierVars, MergeVars, SearchVars, SyncVars, memory_md, memory_legacy,
                   roll_in, LastVars>>

NextGraph == UpsertGraph

SpecGraph == InitGraph /\ [][NextGraph]_vars

(***************************************************************************)
(* The rolling-memory document MEMORY.md, line by line                     *)
(*                                                                         *)
(* A line is a heading of level 1..3 or a text line (level 0); a level-3   *)
(* heading "### Chapter N ..." carries N, every other line NoneInt.        *)
(***************************************************************************)
Heading(level, chapter, text) == [level |-> level, chapter |-> chapter, text |-> text]
TextLine(text) == [level |-> 0, chapter |-> NoneInt, text |-> text]

\* the template _ensure_directories writes
MemoryTemplate ==
    <<Heading(1, NoneInt, "MEMORY"), TextLine(""),
      Heading(2, NoneInt, "Chapter Decisions"), TextLine(""),
      Heading(2, NoneInt, "Pending Items"), TextLine(""),
      Heading(2, NoneInt, "Temporary Clues"), TextLine("")>>

\* new_entry of the lightweight branch: a blank-line break, then the entry
DraftEntry(chapter_number, now) ==
    <<Heading(3, chapter_number, "(draft)"), TextLine("status: draft done"),
      TextLine("synopsis"), TextLine(now)>>

\* the entry ThreeLayerMemory.reflect appends
FinalEntry(chapter_id, now) ==
    <<Heading(3, chapter_id, ""), TextLine("status: done"),
      TextLine("words"), TextLine(now)>>

\* the end of the match of (\n###\s*Chapter\s+N\b.*?)(?=\n###\s|\n##\s|\Z)
\* that starts at line i: the last line before the next heading of level 2
\* or 3, or the last line of the document
RECURSIVE EntryEnd(_, _)
EntryEnd(memory, i) ==
    IF i = Len(memory) THEN i
    ELSE IF memory[i + 1].level \in {2, 3} THEN i
    ELSE EntryEnd(memory, i + 1)

\* pattern.sub(new_entry.rstrip(), memory): every entry of the chapter is
\* replaced by the new entry
RECURSIVE SubEntries(_, _, _, _)
SubEntries(memory, i, chapter_number, new_entry) ==
    IF i > Len(memory) THEN <<>>
    ELSE IF i > 1 /\ memory[i].level = 3 /\ memory[i].chapter = chapter_number
    THEN new_entry \o SubEntries(memory, EntryEnd(memory, i) + 1, chapter_number, new_entry)
    ELSE <<memory[i]>> \o SubEntries(memory, i + 1, chapter_number, new_entry)

\* pattern.search(memory)
HasEntry(memory, chapter_number) ==
    \E i \in 2..Len(memory) : memory[i].level = 3 /\ memory[i].chapter = chapter_number

\* the lightweight branch of refresh_memory_after_chapter
lightweight_write(memory, chapter_number, now) ==
    IF HasEntry(memory, chapter_number)
    THEN SubEntries(memory, 1, chapter_number, DraftEntry(chapter_number, now))
    ELSE memory \o DraftEntry(chapter_number, now)

\* ThreeLayerMemory.reflect: MEMORY.md afterwards
reflect(memory, chapter_content, chapter_id, now) ==
    memory \o FinalEntry(chapter_id, now)

\* the entries of the rolling window of _threshold_rewrite
RECURSIVE WindowEntries(_)
WindowEntries(chapter_numbers) ==
    IF chapter_numbers = <<>> THEN <<>>
    ELSE <<Heading(3, Head(chapter_numbers), ""), TextLine("status"),
           TextLine("title"), TextLine("words"), TextLine("")>>
             \o WindowEntries(Tail(chapter_numbers))

\* _threshold_rewrite: MEMORY.md afterwards, for the ascending chapter
\* numbers of the project
_threshold_rewrite(chapter_numbers, now) ==
    <<Heading(1, NoneInt, "MEMORY"), TextLine(""),
      Heading(2, NoneInt, "Rolling Window (Recent 3 Chapters)")>>
        \o WindowEntries(LastN(chapter_numbers, 3))
        \o <<Heading(2, NoneInt, "Unresolved Mainline Threads"), TextLine("threads"),
             TextLine(""), Heading(2, NoneInt, "Recent Key Decisions"),
             TextLine("decisions"), TextLine(""), TextLine("---"), TextLine(now),
             TextLine("covers")>>

\* refresh_memory_after_chapter: MEMORY.md afterwards
refresh_memory_after_chapter(memory, chapter_number, chapter_text, chapter_numbers, mode, now) ==
    IF mode = "lightweight" THEN lightweight_write(memory, chapter_number, now)
    ELSE IF mode = "consolidated"
    THEN LET reflected == IF chapter_text # <<>>
                          THEN reflect(memory, chapter_text, chapter_number, now)
                          ELSE memory
         IN  IF chapter_number > 0 /\ chapter_number % 3 = 0
             THEN _threshold_rewrite(chapter_numbers, now)
             ELSE reflected
    ELSE memory

\* MEMORY.legacy.md while no compaction has run
NoBackup == <<>>

\* a backup that is taken only while MEMORY.legacy.md does not exist
copy2_if_absent(memory, legacy) == IF legacy = NoBackup THEN memory ELSE legacy

\* _threshold_rewrite: shutil.copy2(memory_path, legacy_path), MEMORY.legacy.md
\* afterwards
copy2(memory, legacy) == memory

\* refresh_memory_after_chapter: MEMORY.legacy.md afterwards; the backup is
\* taken inside _threshold_rewrite, after reflect has appended its entry
legacy_after_chapter(memory, legacy, chapter_number, chapter_text, mode, now) ==
    IF mode = "consolidated" /\ chapter_number > 0 /\ chapter_number % 3 = 0
    THEN copy2(IF chapter_text # <<>>
               THEN reflect(memory, chapter_text, chapter_number, now)
               ELSE memory, legacy)
    ELSE legacy

(***************************************************************************)
(* Specification SpecRoll: chapter write-backs to the rolling memory       *)
(***************************************************************************)
MaxRollChapter == 3
MaxWrites == 3

InitRoll ==
    /\ EarlierIdle /\ MergeIdle /\ SearchIdle /\ SyncIdle /\ GraphIdle /\ LastIdle
    /\ memory_md = MemoryTemplate
    /\ memory_legacy = NoBackup
    /\ roll_in = <<>>
    /\ ops = 0

\* svc.refresh_memory_after_chapter(chapter_number, chapter_text, None,
\* project_chapters, mode) for a project of MaxRollChapter chapters
WriteBack ==
    /\ ops < MaxWrites
    /\ \E chapter_number \in 1..MaxRollChapter, chapter_text \in {<<>>, <<"x">>},
          mode \in {"lightweight", "consolidated"}, now \in Clock :
           /\ roll_in' = [chapter_number |-> chapter_number,
                           chapter_text |-> chapter_text, mode |-> mode, now |-> now]
           /\ memory_md' = refresh_memory_after_chapter(
                               memory_md, chapter_number, chapter_text,
                               [n \in 1..MaxRollChapter |-> n], mode, now)
           /\ memory_legacy' = legacy_after_chapter(
                                   memory_md, memory_legacy, chapter_number,
                                   chapter_text, mode, now)
    /\ ops' = ops + 1
    /\ UNCHANGED <<EarlierVars, MergeVars, SearchVars, SyncVars, GraphVars, LastVars>>

NextRoll == WriteBack

SpecRoll == InitRoll /\ [][NextRoll]_vars

(***************************************************************************)
(* core/llm_client.py: LLMClient                                           *)
(***************************************************************************)
\* the marker phrases _offline_chat looks for in the instruction
PureBodyMarker == "SHU CHU CHUN ZHENG WEN"
FinalBodyMarker == "ZUI ZHONG ZHANG JIE ZHENG WEN"
PolishMarker == "RUN SE"
ReviewMarker == "ZHI CHU BEN GAO KE NENG WEI FAN SHE DING"

\* the four placeholder texts of _offline_chat
OfflineDraft == <<"[", "LI", "XIAN", "CAO", "GAO", "]">>
OfflinePolish == <<"[", "LI", "XIAN", "RUN", "SE", "]">>
OfflineReview == <<"[", "LI", "XIAN", "SHEN", "JIAO", "]">>
OfflinePlaceholder == <<"[", "LI", "XIAN", "ZHAN", "WEI", "]">>

\* phrase in instruction
HasPhrase(instruction, phrase) == \E i \in 1..Len(instruction) : instruction[i] = phrase

\* LLMClient._offline_chat(messages), for the instruction of the last user
\* message
_offline_chat(instruction) ==
    IF HasPhrase(instruction, PureBodyMarker) \/ HasPhrase(instruction, FinalBodyMarker)
    THEN OfflineDraft
    ELSE IF HasPhrase(instruction, PolishMarker) THEN OfflinePolish
    ELSE IF HasPhrase(instruction, ReviewMarker) THEN OfflineReview
    ELSE OfflinePlaceholder

\* LLMClient._offline_embedding(text): the vector is a function of the sha256
\* digest of the text alone; the digest is taken as collision-free
_offline_embedding(text) == <<"sha256", text>>

\* a str returned by chat, and the Stream object the SDK returns for stream=True
Str(value) == [type |-> "str", value |-> value]
Stream(chunks, breaks) == [type |-> "stream", chunks |-> chunks, breaks |-> breaks]

\* one chunk of a provider stream, and one character of a str that is iterated
Chunk(delta) == [kind |-> "chunk", delta |-> delta]
Char(ch) == [kind |-> "char", text |-> <<ch>>]

\* LLMClient.chat(messages, stream=stream) against a provider whose
\* completions.create either raises or answers
chat(api_key, provider, instruction, stream) ==
    IF ~Truthy(api_key) THEN Str(_offline_chat(instruction))
    ELSE IF provider.create = "error" THEN Str(_offline_chat(instruction))
    ELSE IF stream THEN Stream(provider.chunks, provider.breaks)
    ELSE Str(provider.content)

\* LLMClient._extract_stream_delta_text(chunk): a chunk without choices,
\* such as a character of a str, gives ""
_extract_stream_delta_text(chunk) == IF chunk.kind = "chunk" THEN chunk.delta ELSE <<>>

\* for chunk in response:
Iterate(resp) ==
    IF resp.type = "str"
    THEN [i \in 1..Len(resp.value) |-> Char(resp.value[i])]
    ELSE resp.chunks

\* for ch in offline: yield ch
Chars(text) == [i \in 1..Len(text) |-> <<text[i]>>]

\* the texts the loop of chat_stream_text yields: the non-empty delta texts
RECURSIVE DeltaTexts(_)
DeltaTexts(chunks) ==
    IF chunks = <<>> THEN <<>>
    ELSE LET text == _extract_stream_delta_text(Head(chunks))
         IN  (IF text = <<>> THEN <<>> ELSE <<text>>) \o DeltaTexts(Tail(chunks))

\* LLMClient.chat_stream_text(messages): the texts the generator yields
chat_stream_text(api_key, provider, instruction) ==
    IF ~Truthy(api_key) THEN Chars(_offline_chat(instruction))
    ELSE LET resp == chat(api_key, provider, instruction, TRUE)
         IN  IF resp.type = "stream" /\ resp.breaks
             THEN DeltaTexts(Iterate(resp)) \o Chars(_offline_chat(instruction))
             ELSE DeltaTexts(Iterate(resp))

\* LLMClient._embed_openai(text)
_embed_openai(api_key, provider, text) ==
    IF ~Truthy(api_key) THEN _offline_embedding(text)
    ELSE IF provider.embed = "error" THEN _offline_embedding(text)
    ELSE provider.vector

(***************************************************************************)
(* Specification SpecLLM: calls of the client against a provider that      *)
(* answers, fails at the request, or fails in the middle of a stream       *)
(***************************************************************************)
ApiKeys == {<<>>, <<"k">>}
Instructions == {<<>>, <<PureBodyMarker>>, <<"x", FinalBodyMarker>>, <<PolishMarker>>,
                 <<ReviewMarker, "x">>}

\* completions.create: raises, or answers with a content
ChatProviders == {[create |-> c, content |-> t] : c \in {"ok", "error"}, t \in {<<"a">>, <<"a", "b">>}}

\* completions.create(stream=True): raises, or returns a stream of chunks that
\* ends or breaks off with an exception
ChunkLists ==
    {<<>>, <<Chunk(<<"a">>)>>, <<Chunk(<<>>), Chunk(<<"a">>)>>,
     <<Chunk(<<"a">>), Chunk(<<>>), Chunk(<<"b", "c">>)>>}
StreamProviders ==
    {[create |-> c, chunks |-> l, breaks |-> b] :
        c \in {"ok", "error"}, l \in ChunkLists, b \in BOOLEAN}

\* embeddings.create: raises, or answers with a vector
EmbedProviders == {[embed |-> e, vector |-> <<1, 2>>] : e \in {"ok", "error"}}

InitLLM ==
    /\ OldIdle /\ PlanIdle /\ StreamIdle /\ FinalizeIdle /\ QueryIdle /\ OneShotIdle /\ BookIdle
    /\ llm_in = <<>> /\ llm_out = <<>>

\* result = llm_client.chat(messages)
Chat ==
    /\ \E api_key \in ApiKeys, provider \in ChatProviders, instruction \in Instructions :
           /\ llm_in' = [op |-> "chat", api_key |-> api_key, provider |-> provider,
                         instruction |-> instruction]
           /\ llm_out' = [raised |-> FALSE,
                          value |-> chat(api_key, provider, instruction, FALSE).value]
    /\ LLMFrame

\* list(llm_client.chat_stream_text(messages))
ChatStreamText ==
    /\ \E api_key \in ApiKeys, provider \in StreamProviders, instruction \in Instructions :
           /\ llm_in' = [op |-> "chat_stream_text", api_key |-> api_key,
                         provider |-> provider, instruction |-> instruction]
           /\ llm_out' = [raised |-> FALSE,
                          value |-> chat_stream_text(api_key, provider, instruction)]
    /\ LLMFrame

\* llm_client.embed_text(text) of an OpenAI-compatible provider
EmbedText ==
    /\ \E api_key \in ApiKeys, provider \in EmbedProviders, text \in {<<"a">>, <<"b">>} :
           /\ llm_in' = [op |-> "embed_text", api_key |-> api_key, provider |-> provider,
                         text |-> text]
           /\ llm_out' = [raised |-> FALSE, value |-> _embed_openai(api_key, provider, text)]
    /\ LLMFrame

NextLLM == Chat \/ ChatStreamText \/ EmbedText

SpecLLM == InitLLM /\ [][NextLLM]_vars

(***************************************************************************)
(* agents/studio.py: StudioWorkflow.generate_plan                          *)
(***************************************************************************)
\* the template phrases of _detect_template_phrase_hits that the defaults of
\* _extract_plan_payload_with_quality contain
WeiRaoMarker == "WEI RAO"
HuiShouMarker == "HUI SHOU SHANG YI ZHANG WEI JUE SHI XIANG ZHI SHAO YI XIANG"

\* what the director's answer holds: whether it parses as a JSON object, the
\* number of items of each list, whether it names role goals, whether its
\* beats average under 14 characters, and the template phrases in it
PlanText(json, beats, short, conflicts, foreshadowing, callback_targets, role_goals, markers) ==
    [json |-> json, beats |-> beats, short |-> short, conflicts |-> conflicts,
     foreshadowing |-> foreshadowing, callback_targets |-> callback_targets,
     role_goals |-> role_goals, markers |-> markers]

\* defaulted_fields of _extract_plan_payload_with_quality
DefaultedFields(text) ==
    {f \in {"beats", "conflicts", "foreshadowing", "callback_targets"} : text[f] = 0}

\* source of _extract_plan_payload_with_quality
ParserSource(text) ==
    IF text.beats = 0 \/ text.conflicts = 0 THEN "goal_fallback"
    ELSE IF text.json THEN "json_object"
    ELSE "markdown_sections"

\* the normalized payload: three goal-based beats, two goal-based conflicts
\* and one-line placeholders stand in for the empty lists
Normalized(text) ==
    [beats |-> IF text.beats = 0 THEN 3 ELSE text.beats,
     short |-> text.beats # 0 /\ text.short,
     conflicts |-> IF text.conflicts = 0 THEN 2 ELSE text.conflicts,
     foreshadowing |-> IF text.foreshadowing = 0 THEN 1 ELSE text.foreshadowing,
     callback_targets |-> IF text.callback_targets = 0 THEN 1 ELSE text.callback_targets,
     role_goals |-> text.role_goals,
     markers |-> text.markers
                   \cup (IF text.foreshadowing = 0 THEN {WeiRaoMarker} ELSE {})
                   \cup (IF text.callback_targets = 0 THEN {HuiShouMarker} ELSE {})]

\* _detect_template_phrase_hits(payload)
_detect_template_phrase_hits(payload) == Cardinality(payload.markers)

\* the score of _assess_plan_quality before it is clamped
RawScore(payload, source, defaulted_fields) ==
    100 - (IF source = "goal_fallback" THEN 45
           ELSE IF source # "json_object" THEN 10 ELSE 0)
        - (IF "beats" \in defaulted_fields THEN 18 ELSE 0)
        - (IF "conflicts" \in defaulted_fields THEN 14 ELSE 0)
        - (IF "foreshadowing" \in defaulted_fields THEN 8 ELSE 0)
        - (IF "callback_targets" \in defaulted_fields THEN 8 ELSE 0)
        - (IF payload.beats < 3 THEN 25 ELSE 0)
        - (IF payload.conflicts < 2 THEN 18 ELSE 0)
        - (IF payload.foreshadowing < 1 THEN 8 ELSE 0)
        - (IF payload.callback_targets < 1 THEN 8 ELSE 0)
        - (IF ~payload.role_goals THEN 6 ELSE 0)
        - (IF payload.beats > 0 /\ payload.short THEN 10 ELSE 0)
        - MinOf({36, _detect_template_phrase_hits(payload) * 12})

_assess_plan_quality(payload, source, defaulted_fields) ==
    LET score == MaxOf({0, MinOf({100, RawScore(payload, source, defaulted_fields)})})
    IN  [status |-> IF score >= 82 THEN "ok" ELSE IF score >= 62 THEN "warn" ELSE "bad",
         score |-> score,
         parser_source |-> source,
         used_fallback |-> source = "goal_fallback",
         template_phrase_hits |-> _detect_template_phrase_hits(payload)]

\* _extract_plan_payload_with_quality(text, chapter)[1]
PlanQuality(text) ==
    _assess_plan_quality(Normalized(text), ParserSource(text), DefaultedFields(text))

_should_retry_plan(quality) ==
    \/ quality.status = "bad"
    \/ quality.used_fallback
    \/ quality.template_phrase_hits >= 2

\* a selection that adopts whatever the retry returned
adopt_always(retry_score, first_score) == TRUE

\* if retry_score >= first_score
adopt_retry(retry_score, first_score) == retry_score >= first_score

\* generate_plan: the plan, its quality and its source as selected from the
\* director's first answer and, when it is asked for, the retry's answer
generate_plan(plan_text, retry_text) ==
    LET quality == PlanQuality(plan_text)
        retry_quality == PlanQuality(retry_text)
    IN  IF _should_retry_plan(quality)
        THEN IF adopt_retry(retry_quality.score, quality.score)
             THEN [parsed_plan |-> Normalized(retry_text), quality |-> retry_quality,
                   selected_source |-> "retry", attempts |-> 2, retried |-> TRUE]
             ELSE [parsed_plan |-> Normalized(plan_text), quality |-> quality,
                   selected_source |-> "initial", attempts |-> 2, retried |-> TRUE]
        ELSE [parsed_plan |-> Normalized(plan_text), quality |-> quality,
              selected_source |-> "initial", attempts |-> 1, retried |-> FALSE]

(***************************************************************************)
(* Specification SpecPlan: plan generations over the director's answers    *)
(***************************************************************************)
PlanTexts ==
    {PlanText(json, beats, FALSE, conflicts, 1, 1, TRUE, {}) :
        json \in BOOLEAN, beats \in {0, 2, 4}, conflicts \in {1, 2}}
      \cup {PlanText(TRUE, 3, FALSE, 2, 1, 0, FALSE, {HuiShouMarker}),
            PlanText(TRUE, 3, TRUE, 2, 0, 1, TRUE,
                     {WeiRaoMarker, "KAI CHANG JIAN LI ZHANG JIE MU BIAO"}),
            PlanText(FALSE, 0, FALSE, 0, 0, 0, FALSE, {})}

InitPlan ==
    /\ OldIdle /\ LLMIdle /\ StreamIdle /\ FinalizeIdle /\ QueryIdle /\ OneShotIdle /\ BookIdle
    /\ plan_in = <<>> /\ plan_out = <<>>

\* plan = await workflow.generate_plan(chapter, context); the retry's answer
\* is read only when the retry is asked for
GeneratePlan ==
    /\ \E plan_text \in PlanTexts, retry_text \in PlanTexts :
           /\ plan_in' = <<plan_text, retry_text>>
           /\ plan_out' = generate_plan(plan_text, retry_text)
    /\ UNCHANGED <<OldVars, LLMVars, StreamVars, FinalizeVars, QueryVars, one_shot, BookVars>>

NextPlan == GeneratePlan

SpecPlan == InitPlan /\ [][NextPlan]_vars

(***************************************************************************)
(* api/main.py stream_chat_text_async and agents/studio.py                 *)
(* Agent.think_stream: a worker thread feeding an asyncio.Queue            *)
(***************************************************************************)
\* a queue that hands out the newest item first
put_nowait_front(items, item) == <<item>> \o items

\* asyncio.Queue.put_nowait(item) on an unbounded queue
put_nowait(items, item) == Append(items, item)

\* loop.call_soon_threadsafe(queue.put_nowait, item): the callback joins the
\* loop's ready list
call_soon_threadsafe(ready, item) == Append(ready, item)

\* a worker whose sentinel is sent only after a generation without exception
sentinel_unless_failed(worker_errors) == IF worker_errors = <<>> THEN <<None>> ELSE <<>>

\* finally: loop.call_soon_threadsafe(queue.put_nowait, None)
sentinel_finally(worker_errors) == <<None>>

(***************************************************************************)
(* Specification SpecStream: one streamed generation, the worker thread,   *)
(* the event loop and the consuming coroutine taking steps in any order    *)
(***************************************************************************)
MaxDeltas == 3

\* what llm_client.chat_stream_text yields before it ends (fails = FALSE) or
\* raises (fails = TRUE)
RECURSIVE DeltaLists(_)
DeltaLists(n) ==
    IF n = 0 THEN {<<>>}
    ELSE DeltaLists(n - 1)
           \cup {Append(l, d) : l \in {x \in DeltaLists(n - 1) : Len(x) = n - 1},
                                d \in {<<>>, <<"a">>, <<"b">>}}

Generations == {[deltas |-> l, fails |-> f] : l \in DeltaLists(MaxDeltas), f \in BOOLEAN}

InitStream ==
    /\ OldIdle /\ LLMIdle /\ PlanIdle /\ FinalizeIdle /\ QueryIdle /\ OneShotIdle /\ BookIdle
    /\ stream_gen \in Generations
    /\ stream_worker = [pc |-> "for", next |-> 1, worker_errors |-> <<>>]
    /\ loop_ready = <<>>
    /\ stream_queue = <<>>
    /\ stream_consumer = [pc |-> "get", received |-> <<>>]

StreamFrame ==
    UNCHANGED <<OldVars, LLMVars, PlanVars, FinalizeVars, QueryVars, one_shot, BookVars, stream_gen>>

\* stream_worker: one round of 'for delta in llm_client.chat_stream_text(...)',
\* which hands on a non-empty delta, skips an empty one, leaves the loop at
\* the end of the generator, or lands in 'except' when the generator raises
WorkerIterate ==
    /\ stream_worker.pc = "for"
    /\ IF stream_worker.next <= Len(stream_gen.deltas)
       THEN LET delta == stream_gen.deltas[stream_worker.next]
            IN  /\ stream_worker' = [stream_worker EXCEPT !.next = @ + 1]
                /\ loop_ready' = IF delta = <<>> THEN loop_ready
                                 ELSE call_soon_threadsafe(loop_ready, delta)
       ELSE /\ stream_worker' =
                   [stream_worker EXCEPT
                       !.pc = "finally",
                       !.worker_errors = IF stream_gen.fails THEN Append(@, "exc") ELSE @]
            /\ loop_ready' = loop_ready
    /\ UNCHANGED <<stream_queue, stream_consumer>>
    /\ StreamFrame

\* stream_worker: the finally clause
WorkerFinally ==
    /\ stream_worker.pc = "finally"
    /\ stream_worker' = [stream_worker EXCEPT !.pc = "done"]
    /\ loop_ready' = loop_ready \o sentinel_finally(stream_worker.worker_errors)
    /\ UNCHANGED <<stream_queue, stream_consumer>>
    /\ StreamFrame

\* the event loop runs the oldest ready callback: queue.put_nowait(item)
LoopRunCallback ==
    /\ loop_ready # <<>>
    /\ stream_queue' = put_nowait(stream_queue, Head(loop_ready))
    /\ loop_ready' = Tail(loop_ready)
    /\ UNCHANGED <<stream_worker, stream_consumer>>
    /\ StreamFrame

\* the consumer: delta = await queue.get(); on the sentinel it leaves the
\* loop, joins the worker for at most 0.2 s and raises the worker's error
ConsumerGet ==
    /\ stream_consumer.pc = "get"
    /\ stream_queue # <<>>
    /\ stream_queue' = Tail(stream_queue)
    /\ stream_consumer' =
           IF Head(stream_queue) = None
           THEN [stream_consumer EXCEPT
                    !.pc = IF stream_worker.worker_errors # <<>> THEN "raised" ELSE "done"]
           ELSE [stream_consumer EXCEPT !.received = Append(@, Head(stream_queue))]
    /\ UNCHANGED <<stream_worker, loop_ready>>
    /\ StreamFrame

NextStream == WorkerIterate \/ WorkerFinally \/ LoopRunCallback \/ ConsumerGet

SpecStream == InitStream /\ [][NextStream]_vars

\* the worker thread is scheduled by the operating system, the event loop
\* runs its ready callbacks, and a coroutine waiting in queue.get() is resumed
\* once the queue holds an item
SpecStreamFair ==
    /\ InitStream /\ [][NextStream]_vars
    /\ WF_vars(WorkerIterate) /\ WF_vars(WorkerFinally)
    /\ WF_vars(LoopRunCallback) /\ WF_vars(ConsumerGet)

(***************************************************************************)
(* api/main.py: the order of the writes of finalize_generated_draft and    *)
(* review_chapter                                                          *)
(***************************************************************************)
\* the statements of finalize_generated_draft after the consistency check
finalize_statements ==
    <<"upsert_graph_from_chapter", "upsert_chapter_memory", "sync_file_memories",
      "save_trace", "save_chapter">>

\* the statements of review_chapter after the action has been applied to the
\* chapter object: an approval of a non-empty final reflects and syncs first
review_statements(action, chapter) ==
    IF action = "approve" /\ chapter.final # None
    THEN <<"reflect", "sync_file_memories", "save_chapter">>
    ELSE <<"save_chapter">>

\* review_chapter: the chapter object after the action (an approval is taken
\* to pass the P0 gate)
review_applied(action, chapter) ==
    IF action = "approve"
    THEN [chapter EXCEPT !.final = chapter.draft, !.status = "approved"]
    ELSE IF action = "reject" THEN [chapter EXCEPT !.status = "draft"]
    ELSE [chapter EXCEPT !.status = "draft", !.draft = None]

\* the derived artifacts after one statement: the event edges and the
\* chapter's memory item follow chapter.draft, the rolling memory gets an
\* entry of chapter.final
derived_after(statement, chapter, derived) ==
    IF statement = "upsert_graph_from_chapter" /\ chapter.draft # None
    THEN [derived EXCEPT !.events = chapter.draft]
    ELSE IF statement = "upsert_chapter_memory" /\ chapter.draft # None
    THEN [derived EXCEPT !.memory_item = chapter.draft]
    ELSE IF statement = "reflect"
    THEN [derived EXCEPT !.memory_md = chapter.final]
    ELSE derived

\* the chapter file after one statement: save_chapter replaces it atomically
file_after(statement, chapter, file) ==
    IF statement = "save_chapter" THEN chapter ELSE file

(***************************************************************************)
(* Specification SpecFinalize: draft generations and reviews of one        *)
(* chapter, statement by statement                                         *)
(***************************************************************************)
MaxDrafts == 2

Drafts == {<<"draft", n>> : n \in 1..MaxDrafts}

InitFinalize ==
    /\ OldIdle /\ LLMIdle /\ PlanIdle /\ StreamIdle /\ QueryIdle /\ OneShotIdle /\ BookIdle
    /\ fz_chapter = [draft |-> None, final |-> None, status |-> "draft"]
    /\ fz_file = fz_chapter
    /\ fz_derived = [events |-> None, memory_item |-> None, memory_md |-> None]
    /\ fz_pending = <<>>

FinalizeFrame == UNCHANGED <<OldVars, LLMVars, PlanVars, StreamVars, QueryVars, one_shot, BookVars>>

\* finalize_generated_draft(chapter=chapter, draft=draft, ...) is entered
CallFinalize ==
    /\ fz_pending = <<>>
    /\ \E draft \in Drafts :
           fz_chapter' = [fz_chapter EXCEPT !.draft = draft, !.status = "reviewing"]
    /\ fz_pending' = finalize_statements
    /\ UNCHANGED <<fz_file, fz_derived>>
    /\ FinalizeFrame

\* review_chapter(req) is entered; resolve_chapter loads the chapter file,
\* which holds what the handler before has saved
CallReview ==
    /\ fz_pending = <<>>
    /\ \E action \in {"approve", "reject", "rewrite"} :
           /\ fz_chapter' = review_applied(action, fz_chapter)
           /\ fz_pending' = review_statements(action, review_applied(action, fz_chapter))
    /\ UNCHANGED <<fz_file, fz_derived>>
    /\ FinalizeFrame

\* the handler runs its next statement
RunStatement ==
    /\ fz_pending # <<>>
    /\ fz_derived' = derived_after(Head(fz_pending), fz_chapter, fz_derived)
    /\ fz_file' = file_after(Head(fz_pending), fz_chapter, fz_file)
    /\ fz_pending' = Tail(fz_pending)
    /\ UNCHANGED fz_chapter
    /\ FinalizeFrame

NextFinalize == CallFinalize \/ CallReview \/ RunStatement

SpecFinalize == InitFinalize /\ [][NextFinalize]_vars

(***************************************************************************)
(* api/main.py: query_memory and the vector index of a project             *)
(***************************************************************************)
\* a row of memory_items as build_memory_signature reads it; the content of
\* an item is that of its latest write, so the pair stands for the item
ItemRow(id, updated_at) == [id |-> id, updated_at |-> updated_at]

\* a signature of the item ids alone
signature_by_ids(items) == {ItemRow(item.id, 0) : item \in items}

\* build_memory_signature(items): the sha1 of the id:updated_at pairs in the
\* order of get_all_items; the digest is taken as collision-free
build_memory_signature(items) == {ItemRow(item.id, item.updated_at) : item \in items}

\* index/lancedb while the directory does not exist
NoDir == {ItemRow("NoDir", 0)}

\* vector_index_signatures.get(project_id) while there is no entry
NoSignature == {ItemRow("None", 0)}

\* the ids of the items sync_file_memories writes, and of the chapter items
FileItemIds == {"file-identity", "file-memory"}
ChapterItemIds == {"chapter-draft-1"}

\* store.sync_file_memories(): every file item is written again with
\* updated_at = now
synced_items(items, now) ==
    {item \in items : item.id \notin FileItemIds}
      \cup {ItemRow(item.id, now) : item \in {i \in items : i.id \in FileItemIds}}

\* vector_store.add_embedding for every item: delete the id, add the record
add_embeddings(index, items) ==
    {e \in index : \A item \in items : item.id # e.id} \cup items

\* query_memory up to the search: sync, signature test, discard, rebuild
query_memory(items, recorded, index, provider_key, now) ==
    LET synced == synced_items(items, now)
        signature == build_memory_signature(synced)
        signature_changed == recorded # signature \/ index = NoDir
        opened == IF signature_changed \/ index = NoDir THEN {} ELSE index
        rebuilt == IF provider_key /\ signature_changed
                   THEN add_embeddings(opened, synced) ELSE opened
    IN  [items |-> synced,
         recorded |-> IF signature_changed THEN signature ELSE recorded,
         index |-> rebuilt,
         signature_changed |-> signature_changed,
         vector_search |-> provider_key]

(***************************************************************************)
(* Specification SpecQuery: item writes, memory queries and restarts of    *)
(* one project                                                             *)
(***************************************************************************)
MaxClock == 4

InitQuery ==
    /\ OldIdle /\ LLMIdle /\ PlanIdle /\ StreamIdle /\ FinalizeIdle /\ OneShotIdle /\ BookIdle
    /\ vq_items \in {{}, {ItemRow("file-identity", 0), ItemRow("file-memory", 0)}}
    /\ vq_clock = 1
    /\ vq_key \in BOOLEAN
    /\ vector_index_signatures = NoSignature
    /\ vector_index = NoDir
    /\ vq_out = <<>>

QueryFrame == UNCHANGED <<OldVars, LLMVars, PlanVars, StreamVars, FinalizeVars, one_shot, BookVars>>

\* upsert_chapter_memory, or the first sync of a memory file: one item is
\* written with updated_at = now
WriteItem ==
    /\ vq_clock < MaxClock
    /\ \E id \in FileItemIds \cup ChapterItemIds :
           vq_items' = {item \in vq_items : item.id # id} \cup {ItemRow(id, vq_clock)}
    /\ vq_clock' = vq_clock + 1
    /\ UNCHANGED <<vq_key, vector_index_signatures, vector_index, vq_out>>
    /\ QueryFrame

\* GET /api/memory/query
QueryMemory ==
    /\ vq_clock < MaxClock
    /\ LET out == query_memory(vq_items, vector_index_signatures, vector_index,
                               vq_key, vq_clock)
       IN  /\ vq_items' = out.items
           /\ vector_index_signatures' = out.recorded
           /\ vector_index' = out.index
           /\ vq_out' = out
    /\ vq_clock' = vq_clock + 1
    /\ UNCHANGED vq_key
    /\ QueryFrame

\* the server process starts anew: vector_index_signatures is empty again
\* and the settings are read again, the index directory stays
Restart ==
    /\ vector_index_signatures # NoSignature
    /\ vector_index_signatures' = NoSignature
    /\ vq_key' \in BOOLEAN
    /\ UNCHANGED <<vq_items, vq_clock, vector_index, vq_out>>
    /\ QueryFrame

NextQuery == WriteItem \/ QueryMemory \/ Restart

SpecQuery == InitQuery /\ [][NextQuery]_vars

(***************************************************************************)
(* api/main.py run_one_shot_book_generation: one chapter of a run, from    *)
(* finalize_generated_draft to the auto-approval                           *)
(***************************************************************************)
\* an auto-approval that does not look at the consistency result
auto_approve_unchecked(auto_approve, can_submit) == auto_approve

\* if req.auto_approve and result["can_submit"]
auto_approve_passes(auto_approve, can_submit) == auto_approve /\ can_submit

\* the run's Chapter object after finalize_generated_draft
finalized_chapter(chapter, draft, consistency) ==
    [chapter EXCEPT
        !.draft = draft,
        !.word_count = Len(draft),
        !.status = "reviewing",
        !.conflicts = consistency.conflicts,
        !.first_pass_ok = <<consistency.can_submit>>,
        !.p0_conflict_count = consistency.p0_count]

\* str(uuid4()) of the conflicts a run's check reports
OneShotUuids == {"u1"}

\* the drafts a run generates: one the check blocks, one it lets pass
OneShotDrafts == {DraftTaboo, DraftHostile}

OneShotFrame ==
    UNCHANGED <<check_in, check_out, check_prev, budget_in, budgets, service,
                project_chapters, threads, threads_file, recomputes, pack, pack_in,
                chapter_ops, MergeVars, SearchVars, SyncVars, GraphVars, RollVars,
                LLMVars, PlanVars, StreamVars, FinalizeVars, QueryVars, BookVars>>

\* the run has created the chapter and generated its draft: it finalizes its
\* own Chapter object and saves it over the chapter file, whatever requests
\* have written there since the creation
OneShotFinalize ==
    /\ one_shot = <<>>
    /\ \E id \in ChapterIds, draft \in OneShotDrafts, auto_approve \in BOOLEAN :
       LET chapter == NewChapter(id, chapters[id].chapter_number)
       IN  \E cs \in {all_conflicts(draft, StoreContext(chapter))} :
           \E uuids \in [1..Len(cs) -> OneShotUuids] :
               LET consistency == CheckResult(WithIds(cs, uuids))
               IN  /\ chapters' = [chapters EXCEPT ![id] =
                                      finalized_chapter(chapter, draft, consistency)]
                   /\ IF draft # <<>> THEN store' \in StoreStates ELSE store' = store
                   /\ response' = Response("one_shot", id, "-", 200, NoResult, FALSE)
                   \* a run that was not asked to approve writes the chapter no more
                   /\ one_shot' = IF auto_approve
                                  THEN [chapter |-> finalized_chapter(chapter, draft, consistency),
                                        result |-> [can_submit |-> consistency.can_submit],
                                        auto_approve |-> auto_approve]
                                  ELSE <<>>
    /\ held' = <<>>
    /\ OneShotFrame

\* the run goes on after its progress events: it approves and saves its
\* Chapter object when the request asks for it and the result allows it
OneShotApprove ==
    /\ one_shot # <<>>
    /\ IF auto_approve_passes(one_shot.auto_approve, one_shot.result.can_submit)
       THEN /\ chapters' = [chapters EXCEPT ![one_shot.chapter.id] =
                               [one_shot.chapter EXCEPT !.final = one_shot.chapter.draft,
                                                        !.status = "approved"]]
            /\ response' = Response("one_shot", one_shot.chapter.id, "approve", 200,
                                    NoResult, FALSE)
       ELSE UNCHANGED <<chapters, response>>
    /\ one_shot' = <<>>
    /\ held' = <<>>
    /\ UNCHANGED store
    /\ OneShotFrame

NextApprove == UpdateDraft \/ GenerateDraft \/ Review \/ OneShotFinalize \/ OneShotApprove

\* the requests that write a chapter's status or conflicts, with one-shot runs
SpecApprove == Init /\ [][NextApprove]_vars

(***************************************************************************)
(* api/main.py create_chapter and run_one_shot_book_generation: the        *)
(* chapter numbers of one project                                          *)
(***************************************************************************)
MaxNumber == 3
MaxBookChapters == 3
MaxRunChapters == 2

RunIds == {"run-a", "run-b"}

\* {c.chapter_number for c in chapter_list(project_id)}
NumbersOf(project) == {project[i] : i \in 1..Len(project)}

Max(numbers) == CHOOSE n \in numbers : \A m \in numbers : m <= n

\* req.start_chapter_number or ((max(existing_numbers) + 1) if existing_numbers else 1)
first_number(start_chapter_number, existing_numbers) ==
    IF start_chapter_number # NoneInt THEN start_chapter_number
    ELSE IF existing_numbers # {} THEN Max(existing_numbers) + 1
    ELSE 1

\* while next_number in existing_numbers: next_number += 1
RECURSIVE skip_existing(_, _)
skip_existing(next_number, existing_numbers) ==
    IF next_number \in existing_numbers
    THEN skip_existing(next_number + 1, existing_numbers)
    ELSE next_number

\* create_chapter: 400 when a chapter of the project has the number
create_chapter(project, chapter_number) ==
    IF \E i \in 1..Len(project) : project[i] = chapter_number
    THEN [code |-> 400, project |-> project]
    ELSE [code |-> 200, project |-> Append(project, chapter_number)]

\* no run_one_shot_book_generation under way
NoRun == [pc |-> "idle", existing_numbers |-> {}, next_number |-> 0, left |-> 0]

BookFrame == UNCHANGED <<OldVars, LLMVars, PlanVars, StreamVars, FinalizeVars, QueryVars, one_shot>>

InitBook ==
    /\ OldIdle /\ LLMIdle /\ PlanIdle /\ StreamIdle /\ FinalizeIdle /\ QueryIdle
    /\ OneShotIdle
    /\ book_chapters \in {<<>>, <<1>>, <<1, 2>>}
    /\ book_runs = [r \in RunIds |-> NoRun]
    /\ book_out = 0

\* POST /api/chapters, handled without a suspension
CreateChapterRequest ==
    /\ Len(book_chapters) < MaxBookChapters
    /\ \E chapter_number \in 1..MaxNumber :
       LET result == create_chapter(book_chapters, chapter_number)
       IN  /\ book_chapters' = result.project
           /\ book_out' = result.code
    /\ UNCHANGED book_runs
    /\ BookFrame

\* a run reads the project's numbers and waits for its outline
RunStart ==
    /\ \E r \in RunIds, start_chapter_number \in {NoneInt} \cup (1..MaxNumber),
          chapter_count \in 1..MaxRunChapters :
       /\ book_runs[r].pc = "idle"
       /\ book_runs' = [book_runs EXCEPT ![r] =
              [pc |-> "await",
               existing_numbers |-> NumbersOf(book_chapters),
               next_number |-> first_number(start_chapter_number, NumbersOf(book_chapters)),
               left |-> chapter_count]]
    /\ UNCHANGED <<book_chapters, book_out>>
    /\ BookFrame

\* the run is resumed: it creates and saves its next chapter and waits for
\* the chapter's text
RunCreateChapter ==
    /\ Len(book_chapters) < MaxBookChapters
    /\ \E r \in RunIds :
       /\ book_runs[r].pc = "await"
       /\ book_runs[r].left > 0
       /\ LET next_number == skip_existing(book_runs[r].next_number,
                                           book_runs[r].existing_numbers)
          IN  /\ book_chapters' = Append(book_chapters, next_number)
              /\ book_runs' = [book_runs EXCEPT ![r] =
                     [pc |-> "await",
                      existing_numbers |-> book_runs[r].existing_numbers \cup {next_number},
                      next_number |-> next_number,
                      left |-> book_runs[r].left - 1]]
    /\ UNCHANGED book_out
    /\ BookFrame

\* the outline is used up: the run returns and its locals are gone
RunEnd ==
    /\ \E r \in RunIds :
       /\ book_runs[r].pc = "await"
       /\ book_runs[r].left = 0
       /\ book_runs' = [book_runs EXCEPT ![r] = NoRun]
    /\ UNCHANGED <<book_chapters, book_out>>
    /\ BookFrame

NextBook == CreateChapterRequest \/ RunStart \/ RunCreateChapter \/ RunEnd

SpecBook == InitBook /\ [][NextBook]_vars

(***************************************************************************)
(* Claims                                                                  *)
(***************************************************************************)
UnresolvedP0(c) == c.severity = "P0" /\ ~c.resolved /\ ~c.exempted

HasUnresolvedP0(chapter) ==
    \E i \in 1..Len(chapter.conflicts) : UnresolvedP0(chapter.conflicts[i])

\* C1: an approve action on a chapter that has an unresolved P0 conflict is
\* rejected (HTTP 400), and the chapter's status and final text stay as they were.
C1_ApproveRejectedOnP0 ==
    [][\A id \in ChapterIds, comment \in Comments :
          (review_chapter(id, "approve", comment) /\ HasUnresolvedP0(chapters[id]))
              => /\ response'.code = 400
                 /\ chapters'[id].status = chapters[id].status
                 /\ chapters'[id].final = chapters[id].final]_vars

C1_Witness ==
    /\ response.op = "review" /\ response.action = "approve" /\ response.code = 400
    /\ HasUnresolvedP0(chapters[response.chapter_id])
    /\ chapters[response.chapter_id].status = "reviewing"

\* C2: no exemption operation (the review EXEMPT action, the engine's
\* exempt_conflict) ever leaves a conflict of severity P0 marked exempted.
C2_P0NeverExempted ==
    /\ IF held = <<>> THEN TRUE ELSE ~(held.severity = "P0" /\ held.exempted)
    /\ \A id \in ChapterIds : \A i \in 1..Len(chapters[id].conflicts) :
           ~(chapters[id].conflicts[i].severity = "P0" /\ chapters[id].conflicts[i].exempted)

\* C3: every consistency result returned to a caller, computed by check or
\* served from the chapter's stored conflicts, has can_submit = (p0_count = 0).
C3_CanSubmitIffNoP0 ==
    response.result # NoResult
        => (response.result.can_submit <=> (response.result.p0_count = 0))

C3_Witness ==
    /\ response.result # NoResult /\ response.cached
    /\ response.result.p0_count > 0
    /\ \E i \in 1..Len(response.result.conflicts) : response.result.conflicts[i].exempted

WithoutId(c) == [f \in DOMAIN c \ {"id"} |-> c[f]]

WithoutIds(result) ==
    [result EXCEPT
        !.conflicts    = [i \in 1..Len(@) |-> WithoutId(@[i])],
        !.p0_conflicts = [i \in 1..Len(@) |-> WithoutId(@[i])],
        !.p1_conflicts = [i \in 1..Len(@) |-> WithoutId(@[i])],
        !.p2_conflicts = [i \in 1..Len(@) |-> WithoutId(@[i])]]

\* C7 as stated: two invocations of check on the same draft and context return
\* the identical result (conflicts, counts and verdict).
C7_CheckIdentical ==
    (check_prev # NoResult /\ check_out # NoResult) => check_out = check_prev

\* C7 amended: two invocations of check on the same draft and context return
\* the same verdict, the same counts and the same conflicts in the same order,
\* identical in every field except the id the engine generates per conflict.
C7_CheckIdenticalUpToId ==
    (check_prev # NoResult /\ check_out # NoResult)
        => WithoutIds(check_out) = WithoutIds(check_prev)

C7_Witness ==
    /\ check_prev # NoResult /\ check_out # NoResult
    /\ check_out.p0_count >= 1 /\ check_out.p1_count >= 1
    /\ check_out # check_prev

\* C5: for every total input budget, the per-field budgets after the minimum
\* floor and the proportional scale-down sum to at most that input budget.
C5_BudgetsWithinInput ==
    budgets # <<>> => SumValues(budgets) <= budget_in

UsedFields(bs) ==
    bs.identity_core_used + bs.runtime_state_used + bs.memory_compact_used
        + bs.previous_synopsis_used + bs.open_threads_used + bs.previous_chapters_used

\* C4: for every context-pack build, the per-field used-token counts sum to at
\* most the total budget reported with them.
C4_UsedWithinTotalBudget ==
    pack # <<>> => UsedFields(pack.budget_stats) <= pack.budget_stats.total_budget

C4_Witness ==
    /\ pack # <<>>
    /\ service.context_window_tokens = 32768
    /\ Len(service.three_layer.identity) > 2 * pack.budget_stats.identity_core_budget
    /\ pack.budget_stats.identity_core_used = pack.budget_stats.identity_core_budget
    /\ pack.budget_stats.previous_chapters_used = pack.budget_stats.previous_chapters_budget
    /\ pack.open_threads # <<>>

\* C6: the content of each of the six fields delivered in a context pack, the
\* open-threads list and the recent-chapters list included, is within that
\* field's token budget at two characters per token.
C6_FieldsWithinBudget ==
    pack # <<>> =>
        /\ Len(pack.identity_core) <= 2 * pack.budget_stats.identity_core_budget
        /\ Len(pack.runtime_state) <= 2 * pack.budget_stats.runtime_state_budget
        /\ Len(pack.memory_compact) <= 2 * pack.budget_stats.memory_compact_budget
        /\ Len(pack.previous_chapter_synopsis) <= 2 * pack.budget_stats.previous_synopsis_budget
        /\ Len(ListStr(MapSeq(ThreadStr, pack.open_threads)))
               <= 2 * pack.budget_stats.open_threads_budget
        /\ Len(ListStr(MapSeq(CompactStr, pack.previous_chapters_compact)))
               <= 2 * pack.budget_stats.previous_chapters_budget

\* what a recompute reports of a thread: its source, text, status, resolving chapter
Reported(thread_list) ==
    [i \in 1..Len(thread_list) |->
        <<thread_list[i].source_chapter, thread_list[i].text, thread_list[i].status,
          thread_list[i].resolved_by_chapter>>]

\* C8: a recompute run again over the same chapter list reports the same threads,
\* each with the same status and the same resolving chapter.
C8_RecomputeIdempotent ==
    [][(recomputes >= 1 /\ recomputes' = recomputes + 1
            /\ project_chapters' = project_chapters)
           => Reported(threads') = Reported(threads)]_vars

C8_Witness ==
    /\ recomputes = 2
    /\ \E i \in 1..Len(threads) : threads[i].status = "resolved"
    /\ \E i \in 1..Len(threads) : threads[i].status = "open"

\* the callback-target check and the keyword check of one later chapter
CallbackCheck(text, ch) ==
    /\ ch.plan # <<>>
    /\ \E i \in 1..Len(ch.plan.callback_targets) :
           \/ callback_contains(text, ch.plan.callback_targets[i])
           \/ callback_keywords(extract_keywords(text), ch.plan.callback_targets[i])

KeywordCheck(text, ch) == text_keywords(extract_keywords(text), ch)

\* the numbers of the chapters after the thread's source that satisfy either check
Resolvers(t) ==
    {project_chapters[i].chapter_number : i \in
        {j \in 1..Len(project_chapters) :
            /\ project_chapters[j].chapter_number > t.source_chapter
            /\ \/ CallbackCheck(t.text, project_chapters[j])
               \/ KeywordCheck(t.text, project_chapters[j])}}

VerbatimItems ==
    UNION {{c1.plan.foreshadowing[k] :
               k \in {n \in 1..Len(c1.plan.foreshadowing) :
                          InList(c1.plan.foreshadowing[n], c3.plan.callback_targets)}} :
           <<c1, c3>> \in {x \in Range(project_chapters) \X Range(project_chapters) :
                              /\ x[1].chapter_number = 1 /\ x[1].plan # <<>>
                              /\ x[2].chapter_number = 3 /\ x[2].plan # <<>>}}

ReportedResolved(text, by) ==
    \E n \in 1..Len(threads) :
        /\ threads[n].source_chapter = 1 /\ threads[n].text = text
        /\ threads[n].status = "resolved" /\ threads[n].resolved_by_chapter = by

ChapterTwoResolves(T) ==
    \E j \in 1..Len(project_chapters) :
        /\ project_chapters[j].chapter_number = 2
        /\ \/ CallbackCheck(Strip(T), project_chapters[j])
           \/ KeywordCheck(Strip(T), project_chapters[j])

C12_OpenThreadsWithinTopK ==
    pack # <<>> => Len(pack.open_threads) <= pack_in.top_k

\* a build with K = 1 over a thread list holding two open threads, one delivered
C12_Witness ==
    /\ pack # <<>>
    /\ pack_in.top_k = 1
    /\ Len(pack.open_threads) = 1
    /\ Cardinality({i \in 1..Len(threads) : threads[i].status = "open"}) >= 2

\* the threads of a thread list that are reported resolved / open, by identity
ResolvedIn(ts) ==
    {<<ts[i].source_chapter, ts[i].text>> : i \in {n \in 1..Len(ts) : ts[n].status = "resolved"}}
OpenIn(ts) ==
    {<<ts[i].source_chapter, ts[i].text>> : i \in {n \in 1..Len(ts) : ts[n].status = "open"}}

\* C11: a thread that a recompute reported resolved is not reported open by
\* the next recompute unless a chapter was deleted in between (chapters may
\* be created or edited).
C11_ResolvedStaysResolved ==
    [][(recomputes' = recomputes + 1 /\ ~InList("delete", chapter_ops))
          => ResolvedIn(threads) \cap OpenIn(threads') = {}]_vars

\* the id and the content fields of a profile (everything but confidence,
\* provenance and the timestamps)
ContentOf(p) ==
    <<p.profile_id, p.overview, p.personality, p.relationships, p.state_changes,
      p.chapter_events, p.last_updated_chapter, p.override_source>>

\* C13: merging a profile with an identical copy of itself returns a profile
\* equal to it in id and in every content field (overview, personality,
\* relationships, state changes, chapter events, last-updated chapter,
\* override source); only the timestamps may differ.
C13_SelfMergeKeepsContent ==
    (merge_out # <<>> /\ merge_in[1] = merge_in[2])
        => /\ ContentOf(merge_out) = ContentOf(merge_in[1])
           /\ [merge_out EXCEPT !.updated_at = "NOW1", !.created_at = "NOW1"]
                  = [merge_in[1] EXCEPT !.updated_at = "NOW1", !.created_at = "NOW1"]

\* a self-merge of a profile with texts, several relationships and a later
\* update time
C13_Witness ==
    /\ merge_out # <<>> /\ merge_in[1] = merge_in[2]
    /\ merge_in[1].overview # <<>> /\ Len(merge_in[1].relationships) >= 2
    /\ Len(merge_in[1].chapter_events) >= 2
    /\ merge_out.updated_at # merge_in[1].updated_at

\* the items of result after the first n
Rest(result, n) == SubSeq(result, n + 1, Len(result))

\* for existing items ex, incoming items inc and merged items result: the
\* existing items lead the result unchanged, no appended item has the key of
\* an existing item, and every new key of inc is appended exactly once, as its
\* first incoming item
MergedAsClaimed(ex, inc, result, key_fn) ==
    /\ Len(result) >= Len(ex)
    /\ SubSeq(result, 1, Len(ex)) = ex
    /\ \A i \in 1..Len(Rest(result, Len(ex))) :
           KeyOf(key_fn, Rest(result, Len(ex))[i]) \notin KeysOf(key_fn, ex)
    /\ \A j \in 1..Len(inc) :
           KeyOf(key_fn, inc[j]) \notin KeysOf(key_fn, ex)
               => /\ Cardinality({i \in 1..Len(Rest(result, Len(ex))) :
                          KeyOf(key_fn, Rest(result, Len(ex))[i]) = KeyOf(key_fn, inc[j])}) = 1
                  /\ \E i \in 1..Len(Rest(result, Len(ex))) : \E f \in 1..j :
                         /\ Rest(result, Len(ex))[i] = inc[f]
                         /\ KeyOf(key_fn, inc[f]) = KeyOf(key_fn, inc[j])
    /\ \A i \in 1..Len(Rest(result, Len(ex))) :
           KeyOf(key_fn, Rest(result, Len(ex))[i]) \in KeysOf(key_fn, inc)

\* C14: in the collection fields of a profile merged into an existing one,
\* every existing item is kept unchanged, an incoming item whose key matches
\* an existing item never replaces it, and an incoming item with a new key is
\* appended exactly once.
C14_MergedCollections ==
    (merge_out # <<>> /\ merge_in[1] # NoProfile)
        => /\ MergedAsClaimed(merge_in[1].relationships, merge_in[2].relationships,
                              merge_out.relationships, "_rel_key")
           /\ MergedAsClaimed(merge_in[1].state_changes, merge_in[2].state_changes,
                              merge_out.state_changes, "_sc_key")
           /\ MergedAsClaimed(merge_in[1].chapter_events, merge_in[2].chapter_events,
                              merge_out.chapter_events, "_evt_key")

\* the user's relationship met by the LLM's under the same key, with an
\* incoming relationship of a new key listed twice
C14_Witness ==
    /\ merge_out # <<>> /\ merge_in[1] # NoProfile
    /\ merge_in[1].relationships = <<RelUser>>
    /\ merge_in[2].relationships = <<RelLater, RelLater>>
    /\ merge_in[2].state_changes = <<ScA, ScB>>
    /\ merge_out.relationships = <<RelUser, RelLater>>

\* C15: whatever the lexical and the vector results are (either side may be
\* empty), hybrid search returns its results in descending order of combined
\* score.
C15_DescendingCombinedScore ==
    \A i \in 1..Len(search_out) : \A j \in i..Len(search_out) :
        search_out[i].combined_score >= search_out[j].combined_score

\* a search without vector results that returns its two lexical rows in
\* another order than they were merged in
C15_Witness ==
    /\ Len(search_out) = 2
    /\ ~search_in.query_embedding
    /\ search_out[1].combined_score > search_out[2].combined_score
    /\ search_out # _merge_results(search_in.fts_results, <<>>)

\* the rows of table memory_items derived from the document at path p
ItemsOf(p) == {r \in memory_items : r.synced_from_file /\ r.source_path = p}

\* C16: however often the sync runs, the index never holds a second memory
\* item for the same source document.
C16_OneItemPerDocument ==
    \A p \in DocPaths : Cardinality(ItemsOf(p)) <= 1

\* two documents indexed, one of them rewritten and indexed again at a later
\* time
C16_Witness ==
    /\ \E r \in ItemsOf(MemoryPath) : r.updated_at = "NOW2" /\ r.content = <<"b">>
    /\ \E r \in ItemsOf(L3Paths[1]) : r.updated_at = "NOW1"
    /\ Cardinality(memory_items) >= 3

\* C17: after a sync pass no memory item derived from a source document that
\* no longer exists is left in the index.
C17_NoItemOfMissingDocument ==
    [][documents' = documents
          => \A r \in memory_items' : r.synced_from_file => documents'[r.source_path].exists]_vars

\* the event edges a table holds for chapter number n / for the other numbers
EdgesOf(rows, n) == {r \in rows : r.chapter = n}
EdgesElsewhere(rows, n) == {r \in rows : r.chapter # n}

\* the edges one derivation of a chapter yields, whatever its time
Derivations(chapter) ==
    {EventLoop({}, 0, Targets(RoleNames(chapter)), chapter, now) : now \in Clock}

\* C18: when the event edges of a chapter are re-derived, the table holds for
\* its chapter number exactly the edges of this derivation afterwards, and the
\* edges of every other chapter number are as they were.
C18_EdgesReplacedForChapterOnly ==
    [][(ops' = ops + 1 /\ Truthy(graph_in'.draft))
          => /\ EdgesOf(graph_events', graph_in'.chapter_number) \in Derivations(graph_in')
             /\ EdgesElsewhere(graph_events', graph_in'.chapter_number)
                    = EdgesElsewhere(graph_events, graph_in'.chapter_number)]_vars

\* chapter 1 derived, then chapter 2, then chapter 1 again with other roles:
\* an entity first seen in chapter 1 and last in chapter 2 is not among the
\* roles of the latest derivation, and both chapters have edges
C18_Witness ==
    /\ ops = 3 /\ graph_in.chapter_number = 1 /\ Truthy(graph_in.draft)
    /\ \E r \in graph_entities :
           /\ r.first_seen_chapter = 1 /\ r.last_seen_chapter = 2
           /\ ~InList(r.name, graph_in.role_names)
    /\ EdgesOf(graph_events, 1) # {} /\ EdgesOf(graph_events, 2) # {}

\* C19: whenever an entity is observed again, in whatever order chapters are
\* processed, its first-seen chapter does not increase, its last-seen chapter
\* does not decrease, and it keeps every attribute it had.
C19_SeenRangeNeverShrinks ==
    [][\A r \in graph_entities : \E u \in graph_entities' :
           /\ u.entity_id = r.entity_id
           /\ u.first_seen_chapter <= r.first_seen_chapter
           /\ u.last_seen_chapter >= r.last_seen_chapter
           /\ \A a \in DOMAIN r.attrs : a \in DOMAIN u.attrs]_vars

\* the number of entries MEMORY.md holds for chapter n
EntriesOf(n) ==
    Cardinality({i \in 1..Len(memory_md) : memory_md[i].level = 3 /\ memory_md[i].chapter = n})

\* C20: after any sequence of chapter write-backs the rolling-memory document
\* holds at most one entry per chapter (a repeated write replaces the entry).
C20_OneEntryPerChapter ==
    \A n \in 1..MaxRollChapter : EntriesOf(n) <= 1

\* the latest write-back was a threshold compaction (consolidated mode on a
\* chapter number that is a positive multiple of three)
Compacted(r) == r # <<>> /\ r.mode = "consolidated" /\ r.chapter_number % 3 = 0

\* MEMORY.md right before the compaction of request r: the document the
\* write-back started from, with the entry reflect appended for a non-empty text
BeforeCompaction(memory, r) ==
    IF r.chapter_text # <<>> THEN memory \o FinalEntry(r.chapter_number, r.now) ELSE memory

ProviderFailed(in) ==
    \/ ~Truthy(in.api_key)
    \/ in.op = "embed_text" /\ in.provider.embed = "error"
    \/ in.op # "embed_text" /\ in.provider.create = "error"
    \/ in.op = "chat_stream_text" /\ in.provider.breaks

\* "".join(texts)
RECURSIVE Joined(_)
Joined(texts) == IF texts = <<>> THEN <<>> ELSE Head(texts) \o Joined(Tail(texts))

\* C22: chat, chat_stream_text and embed_text never raise on a provider
\* failure; each returns the offline placeholder text or vector instead
C22_FailureGivesPlaceholder ==
    (llm_in # <<>> /\ ProviderFailed(llm_in)) =>
        /\ ~llm_out.raised
        /\ llm_in.op = "chat" => llm_out.value = _offline_chat(llm_in.instruction)
        /\ llm_in.op = "chat_stream_text" =>
               Joined(llm_out.value) = _offline_chat(llm_in.instruction)
        /\ llm_in.op = "embed_text" => llm_out.value = _offline_embedding(llm_in.text)

\* the texts a provider stream delivers before it ends or breaks off
ProviderDeltas(in) ==
    IF Truthy(in.api_key) /\ in.provider.create = "ok"
    THEN DeltaTexts(in.provider.chunks) ELSE <<>>

\* C30: one streamed generation delivers either only provider deltas or only
\* the offline placeholder text, never the placeholder after provider text
C30_ProviderTextOrPlaceholder ==
    (llm_in # <<>> /\ llm_in.op = "chat_stream_text") =>
        \/ llm_out.value = ProviderDeltas(llm_in)
        \/ llm_out.value = Chars(_offline_chat(llm_in.instruction))

\* C23: after a low-quality plan triggered the retry, the retry's output is
\* adopted exactly when its score is not below the first attempt's, otherwise
\* the first plan is kept; the selected plan never scores below the first
C23_RetryAdoptedOnlyIfNotWorse ==
    (plan_in # <<>> /\ plan_out.retried) =>
        LET first == PlanQuality(plan_in[1])
            retry == PlanQuality(plan_in[2])
        IN  /\ plan_out.selected_source = "retry" <=> retry.score >= first.score
            /\ plan_out.selected_source = "retry" =>
                   plan_out.parsed_plan = Normalized(plan_in[2]) /\ plan_out.quality = retry
            /\ plan_out.selected_source = "initial" =>
                   plan_out.parsed_plan = Normalized(plan_in[1]) /\ plan_out.quality = first
            /\ plan_out.quality.score >= first.score

\* a retry that scored below the first attempt and was discarded
C23_Witness ==
    /\ plan_in # <<>> /\ plan_out.retried
    /\ PlanQuality(plan_in[2]).score < PlanQuality(plan_in[1]).score
    /\ plan_out.selected_source = "initial"

\* the non-empty texts among deltas
NonEmptyDeltas(deltas) == SelectSeq(deltas, LAMBDA d : d # <<>>)

\* C24: the consumer of a streamed generation receives exactly the non-empty
\* deltas the worker produced, each once and in the order produced, up to the
\* end of the stream
C24_ConsumerReceivesProducedDeltas ==
    LET produced == NonEmptyDeltas(SubSeq(stream_gen.deltas, 1, stream_worker.next - 1))
    IN  /\ Len(stream_consumer.received) <= Len(produced)
        /\ stream_consumer.received = SubSeq(produced, 1, Len(stream_consumer.received))
        /\ stream_consumer.pc # "get" =>
               /\ stream_worker.pc = "done"
               /\ stream_consumer.received = produced

\* the stream ended after the consumer took two different deltas around a
\* skipped empty one
C24_Witness ==
    /\ stream_consumer.pc = "done"
    /\ stream_gen.deltas = <<<<"b">>, <<>>, <<"a">>>>
    /\ stream_consumer.received = <<<<"b">>, <<"a">>>>

\* the items on their way to the consumer, oldest first
InFlight == stream_queue \o loop_ready

\* the sentinel is enqueued at most once, behind every delta, and exactly
\* once as soon as the worker has finished
SentinelOnceAndLast ==
    /\ \A i \in 1..Len(InFlight) : InFlight[i] = None => i = Len(InFlight)
    /\ stream_consumer.pc # "get" => InFlight = <<>>
    /\ stream_worker.pc = "done" =>
           \/ stream_consumer.pc # "get"
           \/ InFlight # <<>> /\ InFlight[Len(InFlight)] = None
    /\ stream_worker.pc # "done" =>
           /\ stream_consumer.pc = "get"
           /\ \A i \in 1..Len(InFlight) : InFlight[i] # None

\* C25: in every streamed generation the worker enqueues the end-of-stream
\* sentinel exactly once, after all of its deltas, also when the generation
\* fails, so the consuming loop eventually terminates
C25_SentinelOnceThenConsumerEnds ==
    /\ []SentinelOnceAndLast
    /\ <>(stream_worker.pc = "done")
    /\ <>(stream_consumer.pc # "get")

\* a failed generation whose consumer left its loop on the sentinel
C25_Witness ==
    /\ stream_gen.fails /\ stream_gen.deltas # <<>>
    /\ stream_worker.pc = "done"
    /\ stream_consumer.pc = "raised"

\* C26: within one chapter, a derived artifact (event edges, memory item,
\* rolling-memory entry) is recomputed from a text only after the chapter
\* write holding that text has been committed to the chapter file
C26_WriteCommittedBeforeDerivation ==
    [][/\ fz_derived'.events # fz_derived.events => fz_file.draft = fz_derived'.events
       /\ fz_derived'.memory_item # fz_derived.memory_item =>
              fz_file.draft = fz_derived'.memory_item
       /\ fz_derived'.memory_md # fz_derived.memory_md =>
              fz_file.final = fz_derived'.memory_md]_vars

\* C27: a query that finds the signature of the item set different from the
\* one recorded for the index discards the index and rebuilds it from the
\* current items alone, and a vector search never runs against an index
\* built for another item set than the current one
C27_VectorSearchOnCurrentIndex ==
    (vq_out # <<>> /\ vq_out.vector_search) =>
        /\ vq_out.index = vq_out.items
        /\ vq_out.recorded = build_memory_signature(vq_out.items)

\* a vector search ran after an item that was already in the index had been
\* written again
C27_Witness ==
    /\ vq_out # <<>> /\ vq_out.vector_search /\ vq_out.signature_changed
    /\ vector_index = vq_items
    /\ \E item \in vq_items : item.id \in ChapterItemIds /\ item.updated_at >= 2
    /\ vq_clock = MaxClock

\* C28: in every reachable state an approved chapter holds no P0 conflict
\* that is not exempted, whatever generations, draft edits, review actions
\* and one-shot auto-approvals came before
C28_ApprovedWithoutOpenP0 ==
    \A id \in ChapterIds :
        chapters[id].status = "approved" =>
            \A i \in 1..Len(chapters[id].conflicts) :
                ~(chapters[id].conflicts[i].severity = "P0"
                    /\ ~chapters[id].conflicts[i].exempted)

\* a chapter a one-shot run approved over a draft edit that had stored a P0
\* conflict while the run was under way
C28_Witness ==
    /\ response.op = "one_shot" /\ response.action = "approve"
    /\ chapters[response.chapter_id].status = "approved"
    /\ chapters[response.chapter_id].conflicts # <<>>

\* C29: no two chapters of the project ever have the same chapter number,
\* also when creation requests and generation runs interleave
C29_ChapterNumbersUnique ==
    \A i, j \in 1..Len(book_chapters) :
        i # j => book_chapters[i] # book_chapters[j]
====
